---------------------------- MODULE Spec2Model ----------------------------
(***************************************************************************)
(* Bahria University Assignment Tracker.                                   *)
(*                                                                         *)
(* Four parts of the repository are modelled, each with a specification    *)
(* of its own over the same variables:                                     *)
(*   SpecScrape  automation.py  BUAutomation.scrape_assignments: the       *)
(*               thread-pool fan-out over the courses, the collection of   *)
(*               the futures and the days_left pass;                       *)
(*   SpecGui     gui.py         MainWindow: the dashboard's classification *)
(*               and the text summary of self.assignments;                 *)
(*   SpecCloud   app.py         the student store, /api/sync, /api/trigger;*)
(*   SpecNormalise  the deadline normalisers of automation.py and          *)
(*               cloud_scraper.py, called on one text at one time.         *)
(***************************************************************************)
EXTENDS Integers, Sequences, FiniteSets, TLC

VARIABLES
    \* ---- automation.py, scrape_assignments ----
    courses,          \* the (course_id, course_name) options read from the dropdown
    net,              \* what the portal answers to each course's GET: outcome and body
    scrapePc,         \* position of the main thread in scrape_assignments
    task,             \* per course: "new", "queued", "running", "finished", "collected"
    future,           \* per course: the list its future holds once finished
    all_assignments,  \* the aggregate list
    normIdx,          \* number of records the days_left loop has handled
    clock,            \* the wall clock, an index into Nows
    deadlinePassed,   \* an overall deadline of the caller has elapsed
    late,             \* the courses whose task was outstanding when it elapsed
    scrapeReturn,     \* None, or Some(list) once scrape_assignments has returned
    \* ---- gui.py, MainWindow ----
    assignments,      \* self.assignments
    sections,         \* the sections _display_assignments created, None before
    summary,          \* the sections _generate_summary rendered, None before
    \* ---- app.py ----
    students,         \* the "students" object of the data file
    response,         \* the last response of /api/sync, None before
    trigPc,           \* position of /api/trigger: "idle", "loop", "done"
    trigData,         \* the students /api/trigger loaded
    trigTodo,         \* enrollments /api/trigger has still to handle, in order
    results,          \* the results object of /api/trigger
    posts,            \* the requests /api/trigger handed to ntfy.sh, in order
    \* ---- _parse_deadline, _calculate_days_left, calculate_days_left ----
    normText,         \* the argument of the call: the deadline text
    normNow,          \* what datetime.now() returns during the call
    normOut,          \* None, or Some(what the last call did)
    \* ---- app.py, the requests being served ----
    req,              \* per request slot: its position, payload, loaded data and response
    \* ---- gui.py, the refresh cycle ----
    refresh_btn,      \* the state of self.refresh_btn: "normal" or "disabled"
    launch,           \* the timer of root.after(500, ...): "pending" or "fired"
    threads,          \* the _fetch_assignments threads started, in order
    tkQueue           \* the callbacks handed to root.after(0, ...), in order

scrapeVars == <<courses, net, scrapePc, task, future, all_assignments, normIdx,
                clock, deadlinePassed, late, scrapeReturn>>
guiVars    == <<assignments, sections, summary>>
cloudVars  == <<students, response, trigPc, trigData, trigTodo, results, posts>>
normVars   == <<normText, normNow, normOut>>
storeVars  == <<req>>
refreshVars == <<refresh_btn, launch, threads, tkQueue>>
vars       == <<scrapeVars, guiVars, cloudVars, normVars, storeVars, refreshVars>>

\* Python's None and a present value.
None == <<>>
Some(x) == <<x>>

\* An argument of a call: a str, or a value that is no str (None).
Text(t) == [type |-> "str", value |-> t]
NonText == [type |-> "NoneType", value |-> <<>>]

\* ------------------------------------------------------------------------
\* Sequence helpers
\* ------------------------------------------------------------------------
RECURSIVE SeqsUpTo(_, _)
\* All sequences over S of length at most n.
SeqsUpTo(S, n) ==
    IF n = 0 THEN {<<>>}
    ELSE LET shorter == SeqsUpTo(S, n - 1)
         IN  shorter \cup {Append(s, x) : s \in {t \in shorter : Len(t) = n - 1}, x \in S}

\* Number of positions of s holding x.
Count(s, x) == Cardinality({i \in 1..Len(s) : s[i] = x})

\* s[:n]
Take(s, n) == SubSeq(s, 1, IF Len(s) < n THEN Len(s) ELSE n)

Range(s) == {s[i] : i \in 1..Len(s)}

\* ------------------------------------------------------------------------
\* Deadline text.  A text is a sequence of tokens: numbers, names, a clock
\* time "h:mm", a 24-hour time "hh:mm:00", a meridiem marker, white space,
\* a hyphen, a comma.  Times are kept to the minute.
\* ------------------------------------------------------------------------
Tok(k, s, v, w) == [k |-> k, s |-> s, v |-> v, w |-> w]
Num(n)      == Tok("num", "", n, 0)
Name(s)     == Tok("name", s, 0, 0)
Time(h, m)  == Tok("time", "", h, m)
Hms(h, m)   == Tok("hms", "", h, m)
Ampm(s)     == Tok("ampm", s, 0, 0)
Ws          == Tok("ws", " ", 0, 0)
Hyphen      == Tok("hyphen", "-", 0, 0)
Comma       == Tok("comma", ",", 0, 0)

MonthLong  == [January |-> 1, February |-> 2, March |-> 3, April |-> 4, May |-> 5,
               June |-> 6, July |-> 7, August |-> 8, September |-> 9,
               October |-> 10, November |-> 11, December |-> 12]
MonthShort == [Jan |-> 1, Feb |-> 2, Mar |-> 3, Apr |-> 4, May |-> 5, Jun |-> 6,
               Jul |-> 7, Aug |-> 8, Sep |-> 9, Oct |-> 10, Nov |-> 11, Dec |-> 12]

IsLeap(y) == (y % 4 = 0 /\ y % 100 # 0) \/ y % 400 = 0
DaysInMonth(y, m) ==
    IF m = 2 THEN (IF IsLeap(y) THEN 29 ELSE 28)
    ELSE IF m \in {4, 6, 9, 11} THEN 30 ELSE 31

\* deadline_text.replace("-", " ")
ReplaceHyphens(text) == [i \in 1..Len(text) |-> IF text[i].k = "hyphen" THEN Ws ELSE text[i]]

Weekdays == {"Monday", "Tuesday", "Wednesday", "Thursday", "Friday", "Saturday", "Sunday"}

\* One directive of a strptime format, or one literal character of it,
\* against one token.  "IM" is %I:%M, "HMS" is %H:%M:%S.
DirectiveOk(dir, t) ==
    CASE dir = "d"      -> t.k = "num" /\ t.v \in 1..31
      [] dir = "m"      -> t.k = "num" /\ t.v \in 1..12
      [] dir = "B"      -> t.k = "name" /\ t.s \in DOMAIN MonthLong
      [] dir = "b"      -> t.k = "name" /\ t.s \in DOMAIN MonthShort
      [] dir = "A"      -> t.k = "name" /\ t.s \in Weekdays
      [] dir = "Y"      -> t.k = "num" /\ t.v \in 1000..9999
      [] dir = "IM"     -> t.k = "time" /\ t.v \in 1..12 /\ t.w \in 0..59
      [] dir = "HMS"    -> t.k = "hms" /\ t.v \in 0..23 /\ t.w \in 0..59
      [] dir = "p"      -> t.k = "ampm"
      [] dir = "comma"  -> t.k = "comma"
      [] dir = "hyphen" -> t.k = "hyphen"
      [] OTHER          -> FALSE

RECURSIVE SkipWs(_)
SkipWs(text) == IF text # <<>> /\ Head(text).k = "ws" THEN SkipWs(Tail(text)) ELSE text

RECURSIVE MatchFormat(_, _)
\* The regular expression strptime builds from a format: each directive
\* matches one token, white space in the format matches a run of white space,
\* and the whole text must be consumed.
MatchFormat(fmt, text) ==
    IF fmt = <<>> THEN text = <<>>
    ELSE IF text = <<>> THEN FALSE
    ELSE IF Head(fmt) = "ws"
         THEN Head(text).k = "ws" /\ MatchFormat(Tail(fmt), SkipWs(text))
         ELSE DirectiveOk(Head(fmt), Head(text)) /\ MatchFormat(Tail(fmt), Tail(text))

NotWs(t) == t.k # "ws"
NotWsDirective(dir) == dir # "ws"
Has(fmt, dir) == \E i \in 1..Len(fmt) : fmt[i] = dir

\* A strptime that keeps the date of the text and drops its time of day.
StrptimeDateOnly(text, fmt) ==
    IF ~MatchFormat(fmt, text) THEN None
    ELSE LET w    == SelectSeq(text, NotWs)
             f    == SelectSeq(fmt, NotWsDirective)
             Field(dir) == w[CHOOSE i \in 1..Len(f) : f[i] = dir]
             mon  == IF Has(fmt, "B") THEN MonthLong[Field("B").s]
                     ELSE IF Has(fmt, "b") THEN MonthShort[Field("b").s]
                     ELSE Field("m").v
         IN  IF Field("d").v > DaysInMonth(Field("Y").v, mon) THEN None
             ELSE Some([y |-> Field("Y").v, mo |-> mon, d |-> Field("d").v,
                        h |-> 0, mi |-> 0])

\* datetime.strptime(text, fmt): None stands for ValueError.  A field no
\* directive sets keeps its default (hour and minute 0).
Strptime(text, fmt) ==
    IF ~MatchFormat(fmt, text) THEN None
    ELSE LET w    == SelectSeq(text, NotWs)
             f    == SelectSeq(fmt, NotWsDirective)
             Field(dir) == w[CHOOSE i \in 1..Len(f) : f[i] = dir]
             mon  == IF Has(fmt, "B") THEN MonthLong[Field("B").s]
                     ELSE IF Has(fmt, "b") THEN MonthShort[Field("b").s]
                     ELSE Field("m").v
             hour == IF Has(fmt, "IM")
                     THEN (IF Field("p").s = "pm" THEN (Field("IM").v % 12) + 12
                           ELSE Field("IM").v % 12)
                     ELSE IF Has(fmt, "HMS") THEN Field("HMS").v ELSE 0
             min  == IF Has(fmt, "IM") THEN Field("IM").w
                     ELSE IF Has(fmt, "HMS") THEN Field("HMS").w ELSE 0
         IN  IF Field("d").v > DaysInMonth(Field("Y").v, mon) THEN None
             ELSE Some([y |-> Field("Y").v, mo |-> mon, d |-> Field("d").v,
                        h |-> hour, mi |-> min])

formats == << <<"d", "ws", "B", "ws", "Y", "ws", "IM", "ws", "p">>,
              <<"d", "ws", "b", "ws", "Y", "ws", "IM", "ws", "p">>,
              <<"d", "ws", "B", "ws", "Y">>,
              <<"d", "ws", "b", "ws", "Y">> >>

RECURSIVE FirstParse(_, _, _)
\* "for fmt in formats": the first format, from the i-th on, that parses.
FirstParse(text, fmts, i) ==
    IF i > Len(fmts) THEN None
    ELSE IF Strptime(text, fmts[i]) # None THEN Strptime(text, fmts[i])
         ELSE FirstParse(text, fmts, i + 1)

\* BUAutomation._parse_deadline
ParseDeadline(deadline_text) == FirstParse(ReplaceHyphens(deadline_text), formats, 1)

\* Days since 1970-01-01 of a civil date.
DaysFromCivil(y, m, d) ==
    LET yy  == IF m <= 2 THEN y - 1 ELSE y
        era == yy \div 400
        yoe == yy - era * 400
        mp  == (m + 9) % 12
        doy == (153 * mp + 2) \div 5 + d - 1
        doe == yoe * 365 + yoe \div 4 - yoe \div 100 + doy
    IN  era * 146097 + doe - 719468

Minutes(t) == DaysFromCivil(t.y, t.mo, t.d) * 1440 + t.h * 60 + t.mi

\* A days_left that is only set for a deadline not yet passed.
CalculateDaysLeftPastNull(deadline_date, now_) ==
    IF deadline_date = None THEN None
    ELSE IF Minutes(deadline_date[1]) < Minutes(now_) THEN None
    ELSE Some((Minutes(deadline_date[1]) - Minutes(now_)) \div 1440)

\* A days_left rounded toward zero.
CalculateDaysLeftTruncating(deadline_date, now_) ==
    IF deadline_date = None THEN None
    ELSE LET diff == Minutes(deadline_date[1]) - Minutes(now_)
         IN  Some(IF diff >= 0 THEN diff \div 1440 ELSE -((-diff) \div 1440))

\* BUAutomation._calculate_days_left with datetime.now() = now_:
\* timedelta.days, the floor of the difference in days.
CalculateDaysLeft(deadline_date, now_) ==
    IF deadline_date = None THEN None
    ELSE Some((Minutes(deadline_date[1]) - Minutes(now_)) \div 1440)

\* ------------------------------------------------------------------------
\* automation.py: record extraction (fetch_course_assignments, lines 237-271).
\* A table cell is what the code observes of it: its text once the tags are
\* stripped, whether "<a" occurs in it, whether "Deadline Exceeded" occurs.
\* A row is its cells and whether "<th" occurs in it.
\* ------------------------------------------------------------------------
Cell(text, a, exceeded) == [text |-> text, a |-> a, exceeded |-> exceeded]
EmptyCell == Cell(<<>>, FALSE, FALSE)
TableRow(th, cells) == [th |-> th, cells |-> cells]

\* An extraction that counts the cells from 1: title, submission, action and
\* deadline are read one cell to the left.
ExtractRowOffByOne(course_name, row) ==
    IF row.th THEN <<>>
    ELSE IF Len(row.cells) < 8 THEN <<>>
    ELSE LET title          == row.cells[1].text
             deadline       == row.cells[7].text
             has_submission == row.cells[3].a
             is_overdue     == row.cells[6].exceeded
         IN  IF title # <<>>
             THEN << [course     |-> course_name,
                      title      |-> title,
                      deadline   |-> deadline,
                      status     |-> IF has_submission THEN "Submitted" ELSE "Not Submitted",
                      is_overdue |-> is_overdue] >>
             ELSE <<>>

\* The body of "for row in rows": the records one row contributes.
\* cells[1], cells[3], cells[6], cells[7] of the code are positions 2, 4, 7, 8.
ExtractRow(course_name, row) ==
    IF row.th THEN <<>>
    ELSE IF Len(row.cells) < 8 THEN <<>>
    ELSE LET title          == row.cells[2].text
             deadline       == row.cells[8].text
             has_submission == row.cells[4].a
             is_overdue     == row.cells[7].exceeded
         IN  IF title # <<>>
             THEN << [course     |-> course_name,
                      title      |-> title,
                      deadline   |-> deadline,
                      status     |-> IF has_submission THEN "Submitted" ELSE "Not Submitted",
                      is_overdue |-> is_overdue] >>
             ELSE <<>>

RECURSIVE ExtractRows(_, _)
ExtractRows(course_name, rows) ==
    IF rows = <<>> THEN <<>>
    ELSE ExtractRow(course_name, Head(rows)) \o ExtractRows(course_name, Tail(rows))

\* A variant of the fetch that parses whatever body came back, whatever the
\* status code.
FetchIgnoringStatus(course_info, reply) ==
    IF reply.outcome \in {"timeout", "error"} THEN <<>>
    ELSE ExtractRows(course_info.course_name, reply.body)

\* fetch_course_assignments(course_info) when the portal's reply to
\* session.get is `reply`: a status other than 200 returns [], a timeout or
\* any other exception is caught and returns [].
FetchCourseAssignments(course_info, reply) ==
    IF reply.outcome = "ok"
    THEN ExtractRows(course_info.course_name, reply.body)
    ELSE <<>>

\* ------------------------------------------------------------------------
\* cloud_scraper.py: AssignmentParser and calculate_days_left
\* ------------------------------------------------------------------------
cloud_formats == << <<"A", "comma", "ws", "d", "ws", "B", "ws", "Y", "comma", "ws", "IM", "ws", "p">>,
                    <<"d", "ws", "B", "ws", "Y", "comma", "ws", "IM", "ws", "p">>,
                    <<"Y", "hyphen", "m", "hyphen", "d", "ws", "HMS">> >>

RECURSIVE Strip(_)
\* str.strip(): the text without the white space at its two ends.
Strip(text) ==
    IF text = <<>> THEN <<>>
    ELSE IF Head(text).k = "ws" THEN Strip(Tail(text))
    ELSE IF text[Len(text)].k = "ws" THEN Strip(SubSeq(text, 1, Len(text) - 1))
    ELSE text

\* calculate_days_left(deadline_str) with datetime.now() = now_
CloudDaysLeft(deadline_str, now_) ==
    CalculateDaysLeft(FirstParse(Strip(deadline_str), cloud_formats, 1), now_)

\* What AssignmentParser holds for one row at its </tr>: the texts of the
\* first three <td> cells as title, status and deadline; a key whose cell the
\* row lacks reads as the empty text.  A row without a title is not kept.
ParserRow(row) ==
    LET CellText(n) == IF n <= Len(row.cells) THEN row.cells[n].text ELSE <<>>
    IN  IF CellText(1) # <<>>
        THEN << [title |-> CellText(1), status |-> CellText(2), deadline |-> CellText(3)] >>
        ELSE <<>>

RECURSIVE ParserFeed(_)
\* parser.feed(response.text); parser.assignments
ParserFeed(rows) ==
    IF rows = <<>> THEN <<>> ELSE ParserRow(Head(rows)) \o ParserFeed(Tail(rows))

\* scrape_student, the try block of one course up to parser.assignments:
\* nothing for a status other than 200, nothing when session.get raises.
StudentFetchResult(reply) ==
    IF reply.outcome = "ok" THEN ParserFeed(reply.body) ELSE <<>>

\* ------------------------------------------------------------------------
\* Inputs of a scrape run
\* ------------------------------------------------------------------------
max_workers == 8

\* Courses whose replies are enumerated in full.
MaxCourses == 2
\* Courses beyond the worker budget in the large run.
ExtraCourses == 1

Outcomes == {"ok", "status", "timeout", "error"}

CourseNames == <<"CS101", "CS102", "CS103", "CS104", "CS105", "CS106",
                 "CS107", "CS108", "CS109", "CS110", "CS111", "CS112">>
CourseRef(i) == [course_id |-> i, course_name |-> CourseNames[i]]

Sept25 == <<Num(25), Ws, Name("September"), Ws, Num(2025), Hyphen, Time(11, 0), Ws, Ampm("pm")>>
Oct3   == <<Num(3), Ws, Name("Oct"), Ws, Num(2025)>>
Tba    == <<Name("TBA")>>

TitleCell(s) == Cell(<<Name(s)>>, FALSE, FALSE)
HeaderRow     == TableRow(TRUE, <<>>)
EssayRow      == TableRow(FALSE, <<EmptyCell, TitleCell("Essay 1"), EmptyCell,
                                   Cell(<<Name("link")>>, TRUE, FALSE), EmptyCell, EmptyCell,
                                   Cell(<<Name("Deadline Exceeded")>>, FALSE, TRUE),
                                   Cell(Sept25, FALSE, FALSE)>>)
QuizRow       == TableRow(FALSE, <<EmptyCell, TitleCell("Quiz 2"), EmptyCell, EmptyCell,
                                   EmptyCell, EmptyCell, EmptyCell, Cell(Oct3, FALSE, FALSE)>>)
LabRow        == TableRow(FALSE, <<EmptyCell, TitleCell("Lab 3"), EmptyCell, EmptyCell,
                                   EmptyCell, EmptyCell, EmptyCell, Cell(Tba, FALSE, FALSE)>>)
ShortRow      == TableRow(FALSE, <<EmptyCell, TitleCell("Note"), EmptyCell>>)
EmptyTitleRow == TableRow(FALSE, <<EmptyCell, EmptyCell, EmptyCell, EmptyCell,
                                   EmptyCell, EmptyCell, EmptyCell, Cell(Oct3, FALSE, FALSE)>>)

Thu25 == <<Name("Thursday"), Comma, Ws, Num(25), Ws, Name("September"), Ws, Num(2025), Comma,
           Ws, Time(11, 0), Ws, Ampm("pm")>>
Iso3  == <<Num(2025), Hyphen, Num(10), Hyphen, Num(3), Ws, Hms(0, 0)>>
TextCell(text) == Cell(text, FALSE, FALSE)
\* Rows of the page cloud_scraper.py reads: title, status, deadline.
CloudEssayRow == TableRow(FALSE, <<TitleCell("Essay 1"), TitleCell("Submitted"), TextCell(Thu25)>>)
CloudQuizRow  == TableRow(FALSE, <<TitleCell("Quiz 2"), TitleCell("Pending"), TextCell(Iso3)>>)
CloudLabRow   == TableRow(FALSE, <<TitleCell("Lab 3"), EmptyCell, TextCell(Oct3)>>)
CloudBlankRow == TableRow(FALSE, <<EmptyCell, TitleCell("Pending"), TextCell(Iso3)>>)

CloudBodies == { <<HeaderRow>>,
                 <<HeaderRow, CloudEssayRow, CloudBlankRow>>,
                 <<HeaderRow, CloudQuizRow, CloudLabRow>> }
CloudReplies == [outcome : Outcomes, body : CloudBodies]
StudentInputs == UNION {[1..n -> CloudReplies] : n \in 0..MaxCourses}

Bodies == { <<HeaderRow>>,
            <<HeaderRow, EssayRow, ShortRow>>,
            <<HeaderRow, QuizRow, EmptyTitleRow, LabRow>> }

Replies == [outcome : Outcomes, body : Bodies]

\* The large run: more courses than workers, every outcome present.
LargeCount == max_workers + ExtraCourses
LargeNet ==
    [i \in 1..LargeCount |->
        [outcome |-> IF i % 4 = 1 THEN "ok" ELSE IF i % 4 = 2 THEN "status"
                     ELSE IF i % 4 = 3 THEN "timeout" ELSE "error",
         body    |-> <<HeaderRow, EssayRow, ShortRow>>]]

\* Five courses, the third one timing out.
FiveNet ==
    [i \in 1..5 |-> [outcome |-> IF i = 3 THEN "timeout" ELSE "ok",
                     body    |-> IF i % 2 = 0 THEN <<HeaderRow, QuizRow, EmptyTitleRow, LabRow>>
                                 ELSE <<HeaderRow, EssayRow, ShortRow>>]]

ScrapeInputs ==
    UNION {[1..n -> Replies] : n \in 0..MaxCourses} \cup {FiveNet}

Oct1Midnight == [y |-> 2025, mo |-> 10, d |-> 1, h |-> 0, mi |-> 0]
Oct1Night    == [y |-> 2025, mo |-> 10, d |-> 1, h |-> 23, mi |-> 30]
Nows == <<Oct1Midnight, Oct1Night>>


\* ------------------------------------------------------------------------
\* automation.py: BUAutomation.scrape_assignments, lines 221-294
\* ------------------------------------------------------------------------
Idx == 1..Len(courses)
Running == {i \in Idx : task[i] = "running"}
Outstanding == {i \in Idx : task[i] \in {"new", "queued", "running"}}

GuiIdle   == assignments = <<>> /\ sections = None /\ summary = None
CloudIdle == /\ students = << >> /\ response = None /\ trigPc = "idle"
             /\ trigData = << >> /\ trigTodo = <<>>
             /\ results = [sent |-> 0, skipped |-> 0, errors |-> 0, details |-> <<>>]
             /\ posts = <<>>
ScrapeIdle == /\ courses = <<>> /\ net = <<>> /\ scrapePc = "idle" /\ task = <<>>
              /\ future = <<>> /\ all_assignments = <<>> /\ normIdx = 0 /\ clock = 1
              /\ deadlinePassed = FALSE /\ late = {} /\ scrapeReturn = None

NormIdle == normText = Text(<<>>) /\ normNow = Oct1Midnight /\ normOut = None

\* No request is being served.
StoreIdle == req = <<>>

\* No window.
RefreshIdle == refresh_btn = "normal" /\ launch = "fired" /\ threads = <<>> /\ tkQueue = <<>>

\* all_assignments = [] with the courses read and the session built.
ScrapeStart(inputs, pc) ==
    /\ net \in inputs
    /\ courses = [i \in 1..Len(net) |-> CourseRef(i)]
    /\ scrapePc = pc
    /\ task = [i \in 1..Len(net) |-> "new"]
    /\ future = [i \in 1..Len(net) |-> <<>>]
    /\ all_assignments = <<>>
    /\ normIdx = 0
    /\ clock = 1
    /\ deadlinePassed = FALSE
    /\ late = {}
    /\ scrapeReturn = None
    /\ GuiIdle
    /\ CloudIdle
    /\ NormIdle
    /\ StoreIdle
    /\ RefreshIdle

\* Either program at the start of its course loop: scrape_assignments of
\* automation.py, or scrape_student of cloud_scraper.py.
InitScrape == ScrapeStart(ScrapeInputs, "pool") \/ ScrapeStart(StudentInputs, "student")
InitPool   == ScrapeStart({LargeNet}, "pool")

\* A pool that starts a thread for every work item, whatever their number.
WorkerStartUnbounded(i) ==
    /\ task[i] = "queued"
    /\ task' = [task EXCEPT ![i] = "running"]
    /\ UNCHANGED <<courses, net, scrapePc, future, all_assignments, normIdx, clock,
                   deadlinePassed, late, scrapeReturn>>
    /\ UNCHANGED <<guiVars, cloudVars, normVars, storeVars, refreshVars>>

\* executor.submit(fetch_course_assignments, course), one course after the
\* other in the order of the list.
Submit(i) ==
    /\ scrapePc = "pool"
    /\ task[i] = "new"
    /\ \A j \in 1..(i - 1) : task[j] # "new"
    /\ task' = [task EXCEPT ![i] = "queued"]
    /\ UNCHANGED <<courses, net, scrapePc, future, all_assignments, normIdx, clock,
                   deadlinePassed, late, scrapeReturn>>
    /\ UNCHANGED <<guiVars, cloudVars, normVars, storeVars, refreshVars>>

\* A pool thread takes the oldest queued work item; the pool has at most
\* max_workers threads.
WorkerStart(i) ==
    /\ task[i] = "queued"
    /\ \A j \in 1..(i - 1) : task[j] # "queued"
    /\ Cardinality(Running) < max_workers
    /\ task' = [task EXCEPT ![i] = "running"]
    /\ UNCHANGED <<courses, net, scrapePc, future, all_assignments, normIdx, clock,
                   deadlinePassed, late, scrapeReturn>>
    /\ UNCHANGED <<guiVars, cloudVars, normVars, storeVars, refreshVars>>

\* A worker that appends what it found to the aggregate itself, besides
\* returning it.
FetchAppending(i) ==
    /\ task[i] = "running"
    /\ future' = [future EXCEPT ![i] = FetchCourseAssignments(courses[i], net[i])]
    /\ all_assignments' = all_assignments \o FetchCourseAssignments(courses[i], net[i])
    /\ task' = [task EXCEPT ![i] = "finished"]
    /\ UNCHANGED <<courses, net, scrapePc, normIdx, clock, deadlinePassed, late, scrapeReturn>>
    /\ UNCHANGED <<guiVars, cloudVars, normVars, storeVars, refreshVars>>

\* The worker runs fetch_course_assignments to its return and sets the future.
Fetch(i) ==
    /\ task[i] = "running"
    /\ future' = [future EXCEPT ![i] = FetchCourseAssignments(courses[i], net[i])]
    /\ task' = [task EXCEPT ![i] = "finished"]
    /\ UNCHANGED <<courses, net, scrapePc, all_assignments, normIdx, clock,
                   deadlinePassed, late, scrapeReturn>>
    /\ UNCHANGED <<guiVars, cloudVars, normVars, storeVars, refreshVars>>

\* One turn of "for future in as_completed(futures)": any finished future,
\* once every course has been submitted.
Collect(i) ==
    /\ scrapePc = "pool"
    /\ \A j \in Idx : task[j] # "new"
    /\ task[i] = "finished"
    /\ all_assignments' = all_assignments \o future[i]
    /\ task' = [task EXCEPT ![i] = "collected"]
    /\ UNCHANGED <<courses, net, scrapePc, future, normIdx, clock,
                   deadlinePassed, late, scrapeReturn>>
    /\ UNCHANGED <<guiVars, cloudVars, normVars, storeVars, refreshVars>>

\* as_completed is exhausted and the with block is left.
ExitPool ==
    /\ scrapePc = "pool"
    /\ \A j \in Idx : task[j] = "collected"
    /\ scrapePc' = "normalise"
    /\ UNCHANGED <<courses, net, task, future, all_assignments, normIdx, clock,
                   deadlinePassed, late, scrapeReturn>>
    /\ UNCHANGED <<guiVars, cloudVars, normVars, storeVars, refreshVars>>

\* The record with deadline_date and days_left set, datetime.now() being now_.
WithDaysLeft(a, now_) ==
    LET deadline_date == ParseDeadline(a.deadline)
    IN  [deadline_date |-> deadline_date,
         days_left     |-> CalculateDaysLeft(deadline_date, now_)] @@ a

\* One turn of "for a in all_assignments": _calculate_days_left reads the
\* clock anew for every record.
Normalise ==
    /\ scrapePc = "normalise"
    /\ normIdx < Len(all_assignments)
    /\ all_assignments' = [all_assignments EXCEPT ![normIdx + 1] = WithDaysLeft(@, Nows[clock])]
    /\ normIdx' = normIdx + 1
    /\ UNCHANGED <<courses, net, scrapePc, task, future, clock, deadlinePassed, late,
                   scrapeReturn>>
    /\ UNCHANGED <<guiVars, cloudVars, normVars, storeVars, refreshVars>>

\* Time passes while the loop runs.
Tick ==
    /\ scrapePc \in {"normalise", "student"}
    /\ clock < Len(Nows)
    /\ clock' = clock + 1
    /\ UNCHANGED <<courses, net, scrapePc, task, future, all_assignments, normIdx,
                   deadlinePassed, late, scrapeReturn>>
    /\ UNCHANGED <<guiVars, cloudVars, normVars, storeVars, refreshVars>>

\* return all_assignments
ScrapeReturn ==
    /\ scrapePc = "normalise"
    /\ normIdx = Len(all_assignments)
    /\ scrapeReturn' = Some(all_assignments)
    /\ scrapePc' = "done"
    /\ UNCHANGED <<courses, net, task, future, all_assignments, normIdx, clock,
                   deadlinePassed, late>>
    /\ UNCHANGED <<guiVars, cloudVars, normVars, storeVars, refreshVars>>

\* An overall deadline of the caller elapses while the pool is at work.
\* Nothing in scrape_assignments reads it: as_completed is called without a
\* timeout and no future is cancelled.
DeadlineElapses ==
    /\ scrapePc = "pool"
    /\ ~deadlinePassed
    /\ Outstanding # {}
    /\ deadlinePassed' = TRUE
    /\ late' = Outstanding
    /\ UNCHANGED <<courses, net, scrapePc, task, future, all_assignments, normIdx, clock,
                   scrapeReturn>>
    /\ UNCHANGED <<guiVars, cloudVars, normVars, storeVars, refreshVars>>

\* cloud_scraper.py, scrape_student: one turn of "for course_id, course_name
\* in course_options" up to parser.assignments.
StudentCourse(i) ==
    /\ scrapePc = "student"
    /\ task[i] = "new"
    /\ \A j \in 1..(i - 1) : task[j] = "collected"
    /\ LET found == StudentFetchResult(net[i])
       IN  /\ future' = [future EXCEPT ![i] = found]
           /\ task' = [task EXCEPT ![i] = IF found = <<>> THEN "collected" ELSE "finished"]
    /\ normIdx' = 0
    /\ UNCHANGED <<courses, net, scrapePc, all_assignments, clock, deadlinePassed, late,
                   scrapeReturn>>
    /\ UNCHANGED <<guiVars, cloudVars, normVars, storeVars, refreshVars>>

\* One turn of "for a in parser.assignments": course and days_left are set
\* and the record is appended.
StudentAppend(i) ==
    /\ scrapePc = "student"
    /\ task[i] = "finished"
    /\ LET a == future[i][normIdx + 1]
       IN  all_assignments' =
               Append(all_assignments,
                      [course    |-> courses[i].course_name,
                       days_left |-> CloudDaysLeft(a.deadline, Nows[clock])] @@ a)
    /\ normIdx' = normIdx + 1
    /\ task' = [task EXCEPT ![i] = IF normIdx + 1 = Len(future[i]) THEN "collected" ELSE @]
    /\ UNCHANGED <<courses, net, scrapePc, future, clock, deadlinePassed, late, scrapeReturn>>
    /\ UNCHANGED <<guiVars, cloudVars, normVars, storeVars, refreshVars>>

\* return {"enrollment": ..., "assignments": all_assignments, ...}
StudentReturn ==
    /\ scrapePc = "student"
    /\ \A j \in Idx : task[j] = "collected"
    /\ scrapeReturn' = Some(all_assignments)
    /\ scrapePc' = "student_done"
    /\ UNCHANGED <<courses, net, task, future, all_assignments, normIdx, clock,
                   deadlinePassed, late>>
    /\ UNCHANGED <<guiVars, cloudVars, normVars, storeVars, refreshVars>>

NextScrape ==
    \/ \E i \in Idx : StudentCourse(i)
    \/ \E i \in Idx : StudentAppend(i)
    \/ StudentReturn
    \/ \E i \in Idx : Submit(i)
    \/ \E i \in Idx : WorkerStart(i)
    \/ \E i \in Idx : Fetch(i)
    \/ \E i \in Idx : Collect(i)
    \/ ExitPool
    \/ Normalise
    \/ Tick
    \/ ScrapeReturn
    \/ DeadlineElapses

SpecScrape == InitScrape /\ [][NextScrape]_vars

\* The run with more courses than workers.
NextPool ==
    \/ \E i \in Idx : Submit(i)
    \/ \E i \in Idx : WorkerStart(i)
    \/ \E i \in Idx : Fetch(i)
    \/ \E i \in Idx : Collect(i)
    \/ ExitPool
    \/ Normalise
    \/ Tick
    \/ ScrapeReturn

SpecPool == InitPool /\ [][NextPool]_vars

\* ------------------------------------------------------------------------
\* Claims about scrape_assignments
\* ------------------------------------------------------------------------
\* A record without the fields computed from its deadline text.
Raw(a) == [f \in DOMAIN a \ {"deadline_date", "days_left"} |-> a[f]]
Returned == [k \in 1..Len(scrapeReturn[1]) |-> Raw(scrapeReturn[1][k])]
\* The returned records of course i, in the order returned.
ReturnedOf(i) ==
    LET OfCourse(a) == a.course = courses[i].course_name
    IN  SelectSeq(Returned, OfCourse)

\* The records the program's extractor finds in the body of course i.
ExtractedOf(i) ==
    IF scrapePc = "student_done"
    THEN LET found == ParserFeed(net[i].body)
         IN  [k \in 1..Len(found) |-> [course |-> courses[i].course_name] @@ found[k]]
    ELSE ExtractRows(courses[i].course_name, net[i].body)

\* C1: per-course failure isolation.  Once the run has returned, a course
\* whose fetch failed (status other than 200, timeout, exception) has no
\* record in the aggregate, a course whose fetch succeeded has exactly the
\* records extracted from its body, and the aggregate holds nothing else.
C1_FailureIsolation ==
    scrapeReturn # None =>
        /\ \A i \in Idx :
              ReturnedOf(i) = IF net[i].outcome = "ok" THEN ExtractedOf(i) ELSE <<>>
        /\ \A k \in 1..Len(Returned) :
              \E i \in Idx : Returned[k].course = courses[i].course_name

\* Five courses, the third timed out, the run returned the six records of
\* the other four.
C1_Witness ==
    /\ scrapePc = "done"
    /\ net = FiveNet
    /\ ReturnedOf(3) = <<>>
    /\ Len(Returned) = 6

\* C2: bounded concurrency.  At most max_workers fetches are in flight in
\* every state, and every course goes through the pool once: new, queued,
\* running, finished, collected, with no step back.
C2_BoundedConcurrency ==
    /\ [](Cardinality(Running) <= max_workers)
    /\ [][\A i \in Idx :
             task'[i] # task[i] =>
                 <<task[i], task'[i]>> \in {<<"new", "queued">>, <<"queued", "running">>,
                                            <<"running", "finished">>,
                                            <<"finished", "collected">>}]_vars

\* All the workers are busy and a course waits in the queue.
C2_Witness ==
    /\ Cardinality(Running) = max_workers
    /\ \E i \in Idx : task[i] = "queued"

\* C3: overall deadline.  When the deadline elapsed with tasks outstanding,
\* the run returns no record of those tasks.
C3_DeadlineAbandons ==
    scrapeReturn # None =>
        \A i \in late : ReturnedOf(i) = <<>>

\* What the caller gets when one course is fetched with success and its
\* table holds no assignment.
NoAssignmentsReturn ==
    Some(FetchCourseAssignments(CourseRef(1), [outcome |-> "ok", body |-> <<HeaderRow>>]))

\* C4: degraded-result signal.  A run over a non-empty course list in which
\* every fetch failed returns something else than a run in which the
\* fetches succeeded and no assignment exists.
C4_DegradedSignal ==
    (scrapeReturn # None /\ Len(courses) > 0 /\ \A i \in Idx : net[i].outcome # "ok")
        => scrapeReturn # NoAssignmentsReturn

\* A run whose fetches all succeeded with empty tables has returned.
C4_NoAssignmentsRun ==
    /\ scrapeReturn = NoAssignmentsReturn
    /\ Len(courses) > 0
    /\ \A i \in Idx : net[i].outcome = "ok" /\ net[i].body = <<HeaderRow>>


\* ------------------------------------------------------------------------
\* gui.py: MainWindow._display_assignments and MainWindow._generate_summary
\* ------------------------------------------------------------------------
\* Longest self.assignments enumerated.
MaxItems == 2

Titles == <<"Essay 1", "Quiz 2", "Lab 3", "Project 4", "Report 5", "Sheet 6", "Task 7", "Viva 8">>
Statuses == {"Submitted", "Not Submitted"}
GuiDays == {None, Some(-1), Some(0), Some(3), Some(4), Some(7), Some(8), Some(1000)}

\* A record as scrape_assignments returns it.
Assignment(i, days_left, status, is_overdue) ==
    [course        |-> "CS101",
     title         |-> <<Name(Titles[i])>>,
     deadline      |-> IF days_left = None THEN Tba ELSE Oct3,
     deadline_date |-> ParseDeadline(IF days_left = None THEN Tba ELSE Oct3),
     status        |-> status,
     is_overdue    |-> is_overdue,
     days_left     |-> days_left]

\* The lists of n records, the i-th titled Titles[i].
AssignmentLists(n, days, statuses) ==
    {[i \in 1..n |-> Assignment(i, f[i][1], f[i][2], f[i][3])] :
        f \in [1..n -> days \X statuses \X BOOLEAN]}

\* Longer lists of pending records over few values of days_left, for the
\* order of the pending list.
SortDays == {None, Some(0), Some(3), Some(1000)}
SortLists == AssignmentLists(MaxItems + 1, SortDays, {"Not Submitted"})

GuiInputs == UNION {AssignmentLists(n, GuiDays, Statuses) : n \in 0..MaxItems} \cup SortLists

InitGui ==
    /\ assignments \in GuiInputs
    /\ sections = None
    /\ summary = None
    /\ ScrapeIdle
    /\ CloudIdle
    /\ NormIdle
    /\ StoreIdle
    /\ RefreshIdle

IsPending(a)   == a.status # "Submitted"
IsSubmitted(a) == a.status = "Submitted"

\* key=lambda x: x["days_left"] if x["days_left"] is not None else 999
SortKey(x) == IF x.days_left # None THEN x.days_left[1] ELSE 999

\* x put before the first element of the sorted list s whose key is not
\* smaller: a sort that turns equal keys around.
InsertBeforeEqual(s, x) ==
    LET larger == {i \in 1..Len(s) : SortKey(s[i]) >= SortKey(x)}
        at     == IF larger = {} THEN Len(s) + 1
                  ELSE CHOOSE i \in larger : \A j \in larger : i <= j
    IN  SubSeq(s, 1, at - 1) \o <<x>> \o SubSeq(s, at, Len(s))

\* x put behind the last element of the sorted list s whose key is not larger.
InsertByKey(s, x) ==
    LET larger == {i \in 1..Len(s) : SortKey(s[i]) > SortKey(x)}
        at     == IF larger = {} THEN Len(s) + 1
                  ELSE CHOOSE i \in larger : \A j \in larger : i <= j
    IN  SubSeq(s, 1, at - 1) \o <<x>> \o SubSeq(s, at, Len(s))

RECURSIVE SortByDaysLeft(_)
\* pending.sort(key=...): list.sort is stable.
SortByDaysLeft(s) ==
    IF s = <<>> THEN <<>>
    ELSE InsertByKey(SortByDaysLeft(SubSeq(s, 1, Len(s) - 1)), s[Len(s)])

\* Buckets that take the portal's overdue marker for the overdue bucket.
DisplayBucketsByMarker(pending) ==
    LET Overdue(a)  == a.is_overdue
        Urgent(a)   == ~a.is_overdue /\ a.days_left # None /\ a.days_left[1] <= 3
        Soon(a)     == ~a.is_overdue /\ a.days_left # None /\ 4 <= a.days_left[1] /\ a.days_left[1] <= 7
        Upcoming(a) == ~a.is_overdue /\ a.days_left # None /\ a.days_left[1] > 7
        Unknown(a)  == ~a.is_overdue /\ a.days_left = None
    IN  [overdue  |-> SelectSeq(pending, Overdue),
         urgent   |-> SelectSeq(pending, Urgent),
         soon     |-> SelectSeq(pending, Soon),
         upcoming |-> SelectSeq(pending, Upcoming),
         unknown  |-> SelectSeq(pending, Unknown)]

\* Buckets whose urgent tier ends one day early.
DisplayBucketsOffByOne(pending) ==
    LET Overdue(a)  == a.days_left # None /\ a.days_left[1] < 0
        Urgent(a)   == a.days_left # None /\ 0 <= a.days_left[1] /\ a.days_left[1] < 3
        Soon(a)     == a.days_left # None /\ 3 <= a.days_left[1] /\ a.days_left[1] <= 7
        Upcoming(a) == a.days_left # None /\ a.days_left[1] > 7
        Unknown(a)  == a.days_left = None
    IN  [overdue  |-> SelectSeq(pending, Overdue),
         urgent   |-> SelectSeq(pending, Urgent),
         soon     |-> SelectSeq(pending, Soon),
         upcoming |-> SelectSeq(pending, Upcoming),
         unknown  |-> SelectSeq(pending, Unknown)]

\* _display_assignments, lines 438-442: the five lists.
DisplayBuckets(pending) ==
    LET Overdue(a)  == a.days_left # None /\ a.days_left[1] < 0
        Urgent(a)   == a.days_left # None /\ 0 <= a.days_left[1] /\ a.days_left[1] <= 3
        Soon(a)     == a.days_left # None /\ 4 <= a.days_left[1] /\ a.days_left[1] <= 7
        Upcoming(a) == a.days_left # None /\ a.days_left[1] > 7
        Unknown(a)  == a.days_left = None
    IN  [overdue  |-> SelectSeq(pending, Overdue),
         urgent   |-> SelectSeq(pending, Urgent),
         soon     |-> SelectSeq(pending, Soon),
         upcoming |-> SelectSeq(pending, Upcoming),
         unknown  |-> SelectSeq(pending, Unknown)]

\* A section is created only for a list that is not empty.
Section(name, items) == IF items = <<>> THEN <<>> ELSE << [name |-> name, items |-> items] >>

\* _display_assignments: the sections the content frame holds afterwards, in
\* order; "empty" is the empty state shown when nothing is pending.
DisplaySections(all) ==
    LET pending   == SortByDaysLeft(SelectSeq(all, IsPending))
        submitted == SelectSeq(all, IsSubmitted)
        b         == DisplayBuckets(pending)
    IN  (IF pending = <<>>
         THEN << [name |-> "empty", items |-> <<>>] >>
         ELSE Section("overdue", b.overdue) \o Section("urgent", b.urgent)
              \o Section("soon", b.soon) \o Section("upcoming", b.upcoming)
              \o Section("unknown", b.unknown))
        \o Section("submitted", submitted)

\* root.after(0, self._display_assignments)
DisplayAssignments ==
    /\ sections' = Some(DisplaySections(assignments))
    /\ UNCHANGED <<assignments, summary>>
    /\ UNCHANGED <<scrapeVars, cloudVars, normVars, storeVars, refreshVars>>

\* _generate_summary, lines 724-727: the four lists.
SummaryBuckets(pending) ==
    LET Overdue(a)  == a.days_left # None /\ a.days_left[1] < 0
        Urgent(a)   == a.days_left # None /\ 0 <= a.days_left[1] /\ a.days_left[1] <= 3
        Soon(a)     == a.days_left # None /\ 4 <= a.days_left[1] /\ a.days_left[1] <= 7
        Upcoming(a) == a.days_left # None /\ a.days_left[1] > 7
    IN  [overdue  |-> SelectSeq(pending, Overdue),
         urgent   |-> SelectSeq(pending, Urgent),
         soon     |-> SelectSeq(pending, Soon),
         upcoming |-> SelectSeq(pending, Upcoming)]

\* _generate_summary: the counts of the SUMMARY line and the sections of the
\* text, each with the records it lists.
SummaryText(all) ==
    LET pending   == SelectSeq(all, IsPending)
        submitted == SelectSeq(all, IsSubmitted)
        b         == SummaryBuckets(pending)
    IN  [pending   |-> Len(pending),
         submitted |-> Len(submitted),
         sections  |-> Section("overdue", b.overdue) \o Section("urgent", b.urgent)
                       \o Section("soon", b.soon) \o Section("upcoming", b.upcoming)
                       \o Section("submitted", submitted)]

\* The user asks for the text summary.
GenerateSummary ==
    /\ summary' = Some(SummaryText(assignments))
    /\ UNCHANGED <<assignments, sections>>
    /\ UNCHANGED <<scrapeVars, cloudVars, normVars, storeVars, refreshVars>>

NextGui ==
    \/ DisplayAssignments
    \/ GenerateSummary

SpecGui == InitGui /\ [][NextGui]_vars

\* ------------------------------------------------------------------------
\* Claims about the classifier
\* ------------------------------------------------------------------------
BucketNames == {"overdue", "urgent", "soon", "upcoming", "unknown"}

\* The number of times record a is listed in the section called name.
Listed(secs, name, a) ==
    LET Named(x) == x.name = name
        found    == SelectSeq(secs, Named)
    IN  IF found = <<>> THEN 0 ELSE Count(found[1].items, a)

\* Every pending record of all is listed once in the bucket sections of secs,
\* every submitted record in none.
IsPartition(secs, all) ==
    \A k \in 1..Len(all) :
        LET total == Listed(secs, "overdue", all[k]) + Listed(secs, "urgent", all[k])
                     + Listed(secs, "soon", all[k]) + Listed(secs, "upcoming", all[k])
                     + Listed(secs, "unknown", all[k])
        IN  total = IF all[k].status = "Submitted" THEN 0 ELSE 1

\* C5: the classifier's partition is total and disjoint, on the dashboard
\* and in the text summary: each pending record is in exactly one of the
\* five buckets, no submitted record is in any.
C5_Partition ==
    /\ sections # None => IsPartition(sections[1], assignments)
    /\ summary # None => IsPartition(summary[1].sections, assignments)

\* The bucket the rule gives for days_left = d.
RuleBucket(d) ==
    IF d = None THEN "unknown"
    ELSE IF d[1] < 0 THEN "overdue"
    ELSE IF d[1] <= 3 THEN "urgent"
    ELSE IF d[1] <= 7 THEN "soon"
    ELSE "upcoming"

\* C6: on the dashboard a pending record is listed in the bucket of the
\* rule: unknown for null, overdue below 0, urgent for 0..3, soon for 4..7,
\* upcoming above 7.
C6_BucketRule ==
    sections # None =>
        \A k \in 1..Len(assignments) :
            assignments[k].status # "Submitted" =>
                \A name \in BucketNames :
                    Listed(sections[1], name, assignments[k])
                        = IF name = RuleBucket(assignments[k].days_left) THEN 1 ELSE 0

\* The dashboard shows a list holding the boundary values 3 and 4.
C6_Witness ==
    /\ sections # None
    /\ \E j, k \in 1..Len(assignments) :
          /\ assignments[j].status # "Submitted" /\ assignments[j].days_left = Some(3)
          /\ assignments[k].status # "Submitted" /\ assignments[k].days_left = Some(4)
          /\ Listed(sections[1], "urgent", assignments[j]) = 1
          /\ Listed(sections[1], "soon", assignments[k]) = 1

\* C7: two pending records with the same days_left are listed in the same
\* bucket of the dashboard, whatever their overdue markers and other fields.
C7_MarkerIndependent ==
    sections # None =>
        \A j, k \in 1..Len(assignments) :
            (/\ assignments[j].status # "Submitted"
             /\ assignments[k].status # "Submitted"
             /\ assignments[j].days_left = assignments[k].days_left)
            => \A name \in BucketNames :
                   Listed(sections[1], name, assignments[j])
                       = Listed(sections[1], name, assignments[k])

\* The dashboard shows two pending records of equal days_left, one marked
\* overdue by the portal and one not.
C7_Witness ==
    /\ sections # None
    /\ \E j, k \in 1..Len(assignments) :
          /\ assignments[j].status # "Submitted"
          /\ assignments[k].status # "Submitted"
          /\ assignments[j].days_left = assignments[k].days_left
          /\ assignments[j].is_overdue /\ ~assignments[k].is_overdue

\* ------------------------------------------------------------------------
\* app.py: the student store, /api/sync and /api/trigger
\* ------------------------------------------------------------------------
\* Longest list of arbitrary records a desktop app syncs.
MaxSyncItems == 1
\* How many urgent records more than the message lists a student may have.
ExtraUrgent == 1

\* urgent[:5]
max_items == 5

Enrollments == {"02-132222-024", "BSE-7A"}

\* str.lower() on the strings that occur.
Lower(s) ==
    CASE s = "Submitted"     -> "submitted"
      [] s = "Not Submitted" -> "not submitted"
      [] s = "BSE-7A"        -> "bse-7a"
      [] OTHER               -> s

\* gui.py, _sync_to_cloud: the five keys the desktop app sends of a record.
CloudRecord(a) ==
    [course    |-> a.course,
     title     |-> a.title,
     deadline  |-> a.deadline,
     days_left |-> a.days_left,
     status    |-> a.status]

SyncDays == {None, Some(-1), Some(1), Some(4)}

\* The lists of at most MaxSyncItems records of any days_left and status.
ShortLists ==
    UNION {{[i \in 1..n |-> CloudRecord(Assignment(i, f[i][1], f[i][2], FALSE))] :
               f \in [1..n -> SyncDays \X Statuses]} : n \in 0..MaxSyncItems}

\* The lists of more than max_items pending records that are due in 3 days,
\* but for at most one of them, which is due today.
LongLists ==
    UNION {{[i \in 1..n |-> CloudRecord(Assignment(i, IF i = today THEN Some(0) ELSE Some(3),
                                                   "Not Submitted", FALSE))] :
               today \in 0..n} : n \in (max_items + 1)..(max_items + ExtraUrgent)}

SyncLists == ShortLists \cup LongLists

\* The "students" object keeps the order in which its keys were inserted:
\* it is modelled as the sequence of its values, each holding its key.
Position(store, enrollment) ==
    IF \E p \in 1..Len(store) : store[p].enrollment = enrollment
    THEN CHOOSE p \in 1..Len(store) : store[p].enrollment = enrollment
    ELSE 0

\* data["students"][enrollment]
Get(store, enrollment) == store[Position(store, enrollment)]

\* data["students"][enrollment] = student
Put(store, enrollment, student) ==
    IF Position(store, enrollment) = 0 THEN Append(store, student)
    ELSE [store EXCEPT ![Position(store, enrollment)] = student]

\* sync_assignments, line 82: the length of the comprehension, or None when
\* the comparison None <= 3 raises TypeError.
SyncUrgentCount(list) ==
    LET Counted(a) == a.days_left[1] <= 3 /\ Lower(a.status) # "submitted"
    IN  IF \E k \in 1..Len(list) : list[k].days_left = None THEN None
        ELSE Some(Len(SelectSeq(list, Counted)))

\* sync_assignments, lines 82-92: the status code and the JSON body.
SyncResponse(enrollment, list) ==
    IF SyncUrgentCount(list) = None
    THEN [enrollment |-> enrollment, code |-> 500,
          body |-> [error |-> "'<=' not supported between instances of 'NoneType' and 'int'"]]
    ELSE [enrollment |-> enrollment, code |-> 200,
          body |-> [success      |-> TRUE,
                    message      |-> "Synced " \o ToString(Len(list)) \o " assignments",
                    urgent_count |-> SyncUrgentCount(list)[1],
                    topic        |-> "bu-assignments-" \o Lower(enrollment)]]

NoResults == [sent |-> 0, skipped |-> 0, errors |-> 0, details |-> <<>>]

InitCloud ==
    /\ students = << >>
    /\ response = None
    /\ trigPc = "idle"
    /\ trigData = << >>
    /\ trigTodo = <<>>
    /\ results = NoResults
    /\ posts = <<>>
    /\ ScrapeIdle
    /\ GuiIdle
    /\ NormIdle
    /\ StoreIdle
    /\ RefreshIdle

\* POST /api/sync.  Requests are served one at a time: the handler runs from
\* load_data to its return while no other handler runs.
Sync(enrollment, list) ==
    /\ trigPc = "idle"
    /\ IF enrollment = ""
       THEN /\ response' = Some([enrollment |-> enrollment, code |-> 400,
                                 body |-> [error |-> "Enrollment required"]])
            /\ UNCHANGED students
       ELSE /\ students' = Put(students, enrollment,
                               [enrollment           |-> enrollment,
                                assignments          |-> list,
                                last_synced          |-> "now",
                                notification_enabled |-> TRUE])
            /\ response' = Some(SyncResponse(enrollment, list))
    /\ UNCHANGED <<trigPc, trigData, trigTodo, results, posts>>
    /\ UNCHANGED <<scrapeVars, guiVars, normVars, storeVars, refreshVars>>

\* trigger_notifications, lines 271-273.
IsUrgent(a) ==
    a.days_left # None /\ a.days_left[1] <= 3 /\ Lower(a.status) # "submitted"

\* A time text that prints the number whatever it is.
TimeTextPlain(days) == ToString(days[1]) \o " days left"

\* trigger_notifications, lines 313-318.
TimeText(days) ==
    IF days = Some(0) THEN "TODAY!"
    ELSE IF days = Some(1) THEN "Tomorrow"
    ELSE ToString(days[1]) \o " days left"

\* A title between double quotes.
Quoted(title) == [open |-> "\"", text |-> title, close |-> "\""]

\* trigger_notifications, lines 319-322: the four lines of the i-th record
\* listed; the second is three spaces and the quoted title.
ItemLines(i, a) ==
    << ToString(i) \o ". " \o a.course,
       [indent |-> "   ", quoted |-> Quoted(a.title)],
       "   Due: " \o TimeText(a.days_left),
       "" >>

\* The fixed text of lines 279-286.
all_clear_msg == [template |-> "all_clear"]

\* A message that enumerates urgent[:5] although urgent is empty.
BuildMessageNoAllClear(urgent) ==
    LET shown == Take(urgent, max_items)
    IN  [message  |-> [template |-> "warning",
                       count    |-> Len(urgent),
                       items    |-> [i \in 1..Len(shown) |->
                                        [i         |-> i,
                                         course    |-> shown[i].course,
                                         title     |-> shown[i].title,
                                         time_text |-> TimeText(shown[i].days_left),
                                              lines     |-> ItemLines(i, shown[i])]]],
         title    |-> "BU Assignment Reminder",
         priority |-> "4",
         tags     |-> "school,calendar,warning"]

\* trigger_notifications, lines 276-326: the text and the headers of the
\* request for a student whose urgent list is urgent.  A warning is the
\* line with the count and, of each record listed, its number, course,
\* title and time text.
BuildMessage(urgent) ==
    IF urgent = <<>>
    THEN [message  |-> all_clear_msg,
          title    |-> "BU Assignment Tracker",
          priority |-> "2",
          tags     |-> "white_check_mark,tada"]
    ELSE LET shown == Take(urgent, max_items)
         IN  [message  |-> [template |-> "warning",
                            count    |-> Len(urgent),
                            items    |-> [i \in 1..Len(shown) |->
                                             [i         |-> i,
                                              course    |-> shown[i].course,
                                              title     |-> shown[i].title,
                                              time_text |-> TimeText(shown[i].days_left),
                                              lines     |-> ItemLines(i, shown[i])]]],
              title    |-> "BU Assignment Reminder",
              priority |-> "4",
              tags     |-> "school,calendar,warning"]

\* What requests.post does: a response of status 200, a response of another
\* status, or an exception.
PostOutcomes == {"200", "503", "raise"}

\* trigger_notifications, lines 298-306 and 340-348: the results object
\* after the request for enrollment ended with outcome.
Record(res, enrollment, urgent, outcome) ==
    LET detail ==
            IF urgent = <<>>
            THEN CASE outcome = "200" -> [enrollment |-> enrollment, status |-> "all_clear"]
                   [] outcome = "503" -> [enrollment |-> enrollment, status |-> "skipped",
                                          reason |-> "send failed"]
                   [] OTHER           -> [enrollment |-> enrollment, status |-> "skipped",
                                          reason |-> "error"]
            ELSE CASE outcome = "200" -> [enrollment |-> enrollment, status |-> "sent",
                                          urgent_count |-> Len(urgent)]
                   [] outcome = "503" -> [enrollment |-> enrollment, status |-> "error",
                                          code |-> 503]
                   [] OTHER           -> [enrollment |-> enrollment, status |-> "error",
                                          message |-> "ConnectionError"]
        counter == IF outcome = "200" THEN "sent"
                   ELSE IF urgent = <<>> THEN "skipped" ELSE "errors"
    IN  [res EXCEPT ![counter] = @ + 1, !.details = Append(@, detail)]

\* POST /api/trigger, lines 259-263: the handler loads the data file.
TriggerStart ==
    /\ trigPc = "idle"
    /\ trigPc' = "loop"
    /\ trigData' = students
    /\ trigTodo' = [p \in 1..Len(students) |-> students[p].enrollment]
    /\ results' = NoResults
    /\ posts' = <<>>
    /\ response' = None
    /\ UNCHANGED students
    /\ UNCHANGED <<scrapeVars, guiVars, normVars, storeVars, refreshVars>>

\* A loop body in which an exception of requests.post escapes: the handler
\* leaves the loop and no entry is made.
TriggerStudentAborting(outcome) ==
    /\ trigPc = "loop"
    /\ trigTodo # <<>>
    /\ LET enrollment == Head(trigTodo)
           student    == Get(trigData, enrollment)
           urgent     == SelectSeq(student.assignments, IsUrgent)
       IN  /\ posts' = Append(posts, [topic |-> "bu-assignments-" \o Lower(enrollment)]
                                         @@ BuildMessage(urgent))
           /\ results' = IF outcome = "raise" THEN results
                         ELSE Record(results, enrollment, urgent, outcome)
    /\ trigTodo' = IF outcome = "raise" THEN <<>> ELSE Tail(trigTodo)
    /\ UNCHANGED <<students, response, trigPc, trigData>>
    /\ UNCHANGED <<scrapeVars, guiVars, normVars, storeVars, refreshVars>>

\* One iteration of the loop of line 265: the urgent list of the student,
\* the message, the request to ntfy.sh and the entry in results.
TriggerStudent(outcome) ==
    /\ trigPc = "loop"
    /\ trigTodo # <<>>
    /\ LET enrollment == Head(trigTodo)
           student    == Get(trigData, enrollment)
           urgent     == SelectSeq(student.assignments, IsUrgent)
       IN  /\ posts' = Append(posts, [topic |-> "bu-assignments-" \o Lower(enrollment)]
                                         @@ BuildMessage(urgent))
           /\ results' = Record(results, enrollment, urgent, outcome)
    /\ trigTodo' = Tail(trigTodo)
    /\ UNCHANGED <<students, response, trigPc, trigData>>
    /\ UNCHANGED <<scrapeVars, guiVars, normVars, storeVars, refreshVars>>

\* Lines 350-354: the loop is over, the handler returns results.
TriggerReturn ==
    /\ trigPc = "loop"
    /\ trigTodo = <<>>
    /\ trigPc' = "done"
    /\ UNCHANGED <<students, response, trigData, trigTodo, results, posts>>
    /\ UNCHANGED <<scrapeVars, guiVars, normVars, storeVars, refreshVars>>

\* The response is with the scheduler and the handler's locals are gone.
TriggerClose ==
    /\ trigPc = "done"
    /\ trigPc' = "idle"
    /\ trigData' = << >>
    /\ results' = NoResults
    /\ posts' = <<>>
    /\ UNCHANGED <<students, response, trigTodo>>
    /\ UNCHANGED <<scrapeVars, guiVars, normVars, storeVars, refreshVars>>

NextCloud ==
    \/ \E enrollment \in Enrollments \cup {""}, list \in SyncLists : Sync(enrollment, list)
    \/ TriggerStart
    \/ \E outcome \in PostOutcomes : TriggerStudent(outcome)
    \/ TriggerReturn
    \/ TriggerClose

SpecCloud == InitCloud /\ [][NextCloud]_vars

\* ------------------------------------------------------------------------
\* Claims about the notification message
\* ------------------------------------------------------------------------
\* The number of records of list in the classifier's overdue and urgent
\* buckets.
ClassifierCount(list) ==
    LET b == DisplayBuckets(SelectSeq(list, IsPending))
    IN  Len(b.overdue) + Len(b.urgent)

\* The records of list the classifier puts in its overdue or urgent bucket,
\* in the order of list.
ClassifierUrgent(list) ==
    LET InBucket(a) == IsPending(a) /\ RuleBucket(a.days_left) \in {"overdue", "urgent"}
    IN  SelectSeq(list, InBucket)

\* C8: urgent truncation.  For a student with more than max_items urgent
\* records the message lists max_items of them, in ascending days_left, no
\* record left out is due sooner than a record listed, and the count of the
\* message is the number of all urgent records.
C8_TruncationPolicy ==
    \A k \in 1..Len(posts) :
        LET urgent == ClassifierUrgent(trigData[k].assignments)
            msg    == posts[k].message
            ItemOf(title) == CHOOSE u \in Range(urgent) : u.title = title
            shown  == [j \in 1..Len(msg.items) |-> ItemOf(msg.items[j].title)]
        IN  Len(urgent) > max_items =>
                /\ msg.template = "warning"
                /\ msg.count = Len(urgent)
                /\ Len(msg.items) = max_items
                /\ \A j \in 1..Len(shown) : shown[j] \in Range(urgent)
                /\ \A i, j \in 1..Len(shown) :
                       i < j => shown[i].title # shown[j].title
                                /\ shown[i].days_left[1] <= shown[j].days_left[1]
                /\ \A u \in Range(urgent) :
                       (\A j \in 1..Len(shown) : shown[j] # u)
                           => \A j \in 1..Len(shown) : shown[j].days_left[1] <= u.days_left[1]

\* C9: the urgent count matches the classifier.  The count of a warning is
\* the number of records in the classifier's overdue and urgent buckets, an
\* all-clear goes to a student with none, and a sync that stored a list
\* answers with that number as urgent_count.
C9_UrgentCountMatches ==
    /\ \A k \in 1..Len(posts) :
          IF posts[k].message.template = "warning"
          THEN posts[k].message.count = ClassifierCount(trigData[k].assignments)
          ELSE ClassifierCount(trigData[k].assignments) = 0
    /\ (response # None /\ response[1].code # 400) =>
          /\ response[1].code = 200
          /\ response[1].body.urgent_count
                 = ClassifierCount(Get(students, response[1].enrollment).assignments)

\* C10: all-clear decision.  Each student handled got one message: the fixed
\* all-clear text when none of the records is urgent, and otherwise a
\* warning that lists at least one record, all of them urgent.
C10_AllClearDecision ==
    /\ Len(posts) = Len(trigData) - Len(trigTodo)
    /\ \A k \in 1..Len(posts) :
          LET urgent == ClassifierUrgent(trigData[k].assignments)
              msg    == posts[k].message
          IN  IF urgent = <<>>
              THEN msg = all_clear_msg
              ELSE /\ msg.template = "warning"
                   /\ Len(msg.items) >= 1
                   /\ \A j \in 1..Len(msg.items) :
                          \E u \in Range(urgent) :
                              /\ u.title = msg.items[j].title
                              /\ u.course = msg.items[j].course

\* A trigger handled two students: the first has a record, none urgent,
\* and got the all-clear, the second got a warning.
C10_Witness ==
    /\ trigPc = "done"
    /\ Len(posts) = 2
    /\ trigData[1].assignments # <<>>
    /\ posts[1].message = all_clear_msg
    /\ posts[2].message.template = "warning"

\* C11: per-addressee dispatch isolation.  In a trigger run the k-th request
\* to the transport is the one for the k-th stored student, each student
\* handled has one request and one detail entry with a status, the three
\* counters add up to the number of students handled, the loop body can run
\* while a student is left whatever happened to the students before, and
\* the run ends with every student handled.
C11_DispatchIsolation ==
    /\ Len(posts) = Len(results.details)
    /\ Len(posts) + Len(trigTodo) = Len(trigData)
    /\ \A k \in 1..Len(posts) :
          /\ posts[k].topic = "bu-assignments-" \o Lower(trigData[k].enrollment)
          /\ results.details[k].enrollment = trigData[k].enrollment
          /\ results.details[k].status \in {"sent", "all_clear", "skipped", "error"}
    /\ \A j, k \in 1..Len(trigData) : j # k => trigData[j].enrollment # trigData[k].enrollment
    /\ results.sent + results.skipped + results.errors = Len(posts)
    /\ (trigPc = "loop" /\ trigTodo # <<>>) => ENABLED (\E outcome \in PostOutcomes : TriggerStudent(outcome))
    /\ trigPc = "done" => Len(results.details) = Len(trigData)

\* A trigger run over two students ended: the request for the first failed
\* and the one for the second was delivered.
C11_Witness ==
    /\ trigPc = "done"
    /\ Len(trigData) = 2
    /\ results.details[1].status \in {"skipped", "error"}
    /\ results.details[2].status \in {"sent", "all_clear"}

\* ------------------------------------------------------------------------
\* Claims about the order of the pending list
\* ------------------------------------------------------------------------
\* The list `pending` of _display_assignments after line 428.
SortedPending == SortByDaysLeft(SelectSeq(assignments, IsPending))

\* The items of the section called name, none when there is no such section.
ItemsOf(secs, name) ==
    LET Named(x) == x.name = name
        found    == SelectSeq(secs, Named)
    IN  IF found = <<>> THEN <<>> ELSE found[1].items

\* The position of record a in the list s it occurs in.
IndexIn(s, a) == CHOOSE i \in 1..Len(s) : s[i] = a

\* C12: sort order of the pending list.  Once the dashboard is drawn, the
\* pending list is in ascending days_left and no record with null days_left
\* stands before a record with a finite one.
C12_SortOrder ==
    sections # None =>
        \A i, j \in 1..Len(SortedPending) :
            i < j =>
                /\ (SortedPending[i].days_left # None /\ SortedPending[j].days_left # None)
                       => SortedPending[i].days_left[1] <= SortedPending[j].days_left[1]
                /\ ~(SortedPending[i].days_left = None /\ SortedPending[j].days_left # None)

\* C13: sort stability.  Two pending records of equal days_left stand in
\* the sorted pending list, and in the bucket of the dashboard that lists
\* them, in the order they have in self.assignments.
C13_SortStable ==
    sections # None =>
        \A i, j \in 1..Len(assignments) :
            (/\ i < j
             /\ IsPending(assignments[i]) /\ IsPending(assignments[j])
             /\ assignments[i].days_left = assignments[j].days_left)
            => /\ IndexIn(SortedPending, assignments[i]) < IndexIn(SortedPending, assignments[j])
               /\ LET items == ItemsOf(sections[1], RuleBucket(assignments[i].days_left))
                  IN  /\ Count(items, assignments[i]) = 1
                      /\ Count(items, assignments[j]) = 1
                      /\ IndexIn(items, assignments[i]) < IndexIn(items, assignments[j])

\* The dashboard shows two pending records of equal days_left behind a
\* record that is due later.
C13_Witness ==
    /\ sections # None
    /\ \E h, i, j \in 1..Len(assignments) :
          /\ h < i /\ i < j
          /\ IsPending(assignments[h]) /\ IsPending(assignments[i]) /\ IsPending(assignments[j])
          /\ assignments[i].days_left = assignments[j].days_left
          /\ assignments[i].days_left # None /\ assignments[h].days_left # None
          /\ assignments[h].days_left[1] > assignments[i].days_left[1]
          /\ Len(ItemsOf(sections[1], RuleBucket(assignments[i].days_left))) >= 2

\* ------------------------------------------------------------------------
\* Claims about deadline_date and days_left
\* ------------------------------------------------------------------------
\* C14: days_left is null iff the deadline is.  A record of
\* scrape_assignments that has its days_left has its deadline_date, and one
\* is None exactly when the other is; every record returned has both.  A
\* record of scrape_student, which keeps no timestamp, has a null days_left
\* exactly when its deadline text parses in none of the formats.
C14_NullIffDeadlineNull ==
    /\ \A k \in 1..Len(all_assignments) :
          LET a == all_assignments[k]
          IN  "days_left" \in DOMAIN a =>
                  IF scrapePc \in {"student", "student_done"}
                  THEN (a.days_left = None) <=> (FirstParse(a.deadline, cloud_formats, 1) = None)
                  ELSE /\ "deadline_date" \in DOMAIN a
                       /\ (a.days_left = None) <=> (a.deadline_date = None)
    /\ scrapeReturn # None =>
          \A k \in 1..Len(scrapeReturn[1]) : "days_left" \in DOMAIN scrapeReturn[1][k]

\* scrape_assignments returned a record with deadline_date and days_left
\* set and a record with both None.
C14_Witness ==
    /\ scrapePc = "done"
    /\ \E j, k \in 1..Len(scrapeReturn[1]) :
          /\ scrapeReturn[1][j].deadline_date # None /\ scrapeReturn[1][j].days_left # None
          /\ scrapeReturn[1][k].deadline_date = None /\ scrapeReturn[1][k].days_left = None

\* ------------------------------------------------------------------------
\* The normalisers on their own: _parse_deadline with _calculate_days_left
\* (automation.py) and calculate_days_left (cloud_scraper.py), called with
\* one argument while the clock shows one time.
\* ------------------------------------------------------------------------
LongTime  == <<Num(25), Ws, Name("September"), Ws, Num(2025), Ws, Time(11, 0), Ws, Ampm("pm")>>
ShortTime == <<Num(25), Ws, Name("Sep"), Ws, Num(2025), Ws, Time(11, 0), Ws, Ampm("pm")>>
LongDate  == <<Num(25), Ws, Name("September"), Ws, Num(2025)>>
ShortDate == <<Num(25), Ws, Name("Sep"), Ws, Num(2025)>>
CommaTime == <<Num(25), Ws, Name("September"), Ws, Num(2025), Comma, Ws, Time(11, 0), Ws, Ampm("pm")>>
Iso25     == <<Num(2025), Hyphen, Num(9), Hyphen, Num(25), Ws, Hms(23, 0)>>
Feb30     == <<Num(30), Ws, Name("February"), Ws, Num(2025)>>
Padded    == <<Ws>> \o LongDate \o <<Ws>>
Garbled   == <<Name("25th"), Ws, Name("of"), Ws, Name("September")>>
NoonShort == <<Num(3), Ws, Name("Oct"), Ws, Num(2025), Hyphen, Time(12, 0), Ws, Ampm("pm")>>
NightLong == <<Num(29), Ws, Name("February"), Ws, Num(2024), Ws, Time(12, 30), Ws, Ampm("am")>>

\* The values the normalisers are called with.
DeadlineValues ==
    {Text(t) : t \in {LongTime, Sept25, ShortTime, LongDate, ShortDate, Oct3, Thu25, CommaTime,
                      Iso25, Iso3, Feb30, Padded, Garbled, Tba, <<>>, NoonShort, NightLong}}
        \cup {NonText}

At(y, mo, d, h, mi) == [y |-> y, mo |-> mo, d |-> d, h |-> h, mi |-> mi]

\* The times the clock shows: three days, a day less half an hour and two
\* hours before 25 September 2025 23:00, that minute, an hour after it, and
\* 1 October.
NormNows == {At(2025, 9, 22, 23, 0), At(2025, 9, 24, 23, 30), At(2025, 9, 25, 21, 0),
             At(2025, 9, 25, 23, 0), At(2025, 9, 26, 0, 0), Oct1Midnight}

InitNormalise ==
    /\ normText \in DeadlineValues
    /\ normNow \in NormNows
    /\ normOut = None
    /\ ScrapeIdle
    /\ GuiIdle
    /\ CloudIdle
    /\ StoreIdle
    /\ RefreshIdle

\* self._parse_deadline(deadline_text): a value without replace() raises
\* AttributeError, which "except Exception" turns into None.
ParseDeadlineOf(value) ==
    IF value.type = "str" THEN ParseDeadline(value.value) ELSE None

\* automation.py, lines 289-291, for one record.
ParseDeadlineCall ==
    /\ normOut' = Some(LET deadline_date == ParseDeadlineOf(normText)
                       IN  [by            |-> "_parse_deadline",
                            raised        |-> FALSE,
                            deadline_date |-> deadline_date,
                            days_left     |-> CalculateDaysLeft(deadline_date, normNow)])
    /\ UNCHANGED <<normText, normNow>>
    /\ UNCHANGED <<scrapeVars, guiVars, cloudVars, storeVars, refreshVars>>

\* cloud_scraper.py, calculate_days_left(deadline_str): deadline_str.strip()
\* of a value that is no str raises AttributeError, and only ValueError is
\* caught.
CalculateDaysLeftCall ==
    /\ normOut' = Some(IF normText.type = "str"
                       THEN [by            |-> "calculate_days_left",
                             raised        |-> FALSE,
                             deadline_date |-> FirstParse(Strip(normText.value), cloud_formats, 1),
                             days_left     |-> CloudDaysLeft(normText.value, normNow)]
                       ELSE [by            |-> "calculate_days_left",
                             raised        |-> TRUE,
                             deadline_date |-> None,
                             days_left     |-> None])
    /\ UNCHANGED <<normText, normNow>>
    /\ UNCHANGED <<scrapeVars, guiVars, cloudVars, storeVars, refreshVars>>

NextNormalise ==
    \/ ParseDeadlineCall
    \/ CalculateDaysLeftCall

SpecNormalise == InitNormalise /\ [][NextNormalise]_vars

\* ------------------------------------------------------------------------
\* Claims about the normalisers
\* ------------------------------------------------------------------------
\* C15: days_left arithmetic.  For a deadline that parsed, days_left is the
\* number n of whole days in deadline minus now, n days <= deadline - now <
\* n + 1 days, and it is negative exactly when the deadline is before now.
C15_DaysLeftArithmetic ==
    (normOut # None /\ ~normOut[1].raised /\ normOut[1].deadline_date # None) =>
        /\ normOut[1].days_left # None
        /\ LET diff == Minutes(normOut[1].deadline_date[1]) - Minutes(normNow)
               n    == normOut[1].days_left[1]
           IN  /\ n * 1440 <= diff
               /\ diff < (n + 1) * 1440
               /\ (n < 0) <=> (diff < 0)

\* The deadline was an hour ago and days_left is -1.
C15_Witness ==
    /\ normText = Text(Sept25)
    /\ normNow = At(2025, 9, 26, 0, 0)
    /\ normOut # None
    /\ normOut[1].by = "_parse_deadline"
    /\ normOut[1].days_left = Some(-1)

\* The value is a text one of the formats of the normaliser called parses.
Supported(value, by) ==
    /\ value.type = "str"
    /\ IF by = "_parse_deadline"
       THEN \E i \in 1..Len(formats) : Strptime(ReplaceHyphens(value.value), formats[i]) # None
       ELSE \E i \in 1..Len(cloud_formats) : Strptime(Strip(value.value), cloud_formats[i]) # None

FiveForms == {Text(LongTime), Text(ShortTime), Text(LongDate), Text(ShortDate), Text(Thu25)}

\* C20: supported templates.  A call with a text in one of the five forms
\* returns a timestamp.
C20_SupportedTemplates ==
    (normOut # None /\ normText \in FiveForms) =>
        /\ ~normOut[1].raised
        /\ normOut[1].deadline_date # None

\* ------------------------------------------------------------------------
\* Claims about the records of a run
\* ------------------------------------------------------------------------
\* C16: single injected now.  Two records a run returned with the same
\* deadline text have the same days_left.
C16_SingleNow ==
    scrapeReturn # None =>
        \A j, k \in 1..Len(scrapeReturn[1]) :
            scrapeReturn[1][j].deadline = scrapeReturn[1][k].deadline
                => scrapeReturn[1][j].days_left = scrapeReturn[1][k].days_left

\* The run is one of scrape_student of cloud_scraper.py.
StudentRun == scrapePc \in {"student", "student_done"}

\* The cell of a row the extractor of the run reads the title from, and the
\* cell it reads the submission from; a cell the row lacks is empty.
CellAt(row, n) == IF n <= Len(row.cells) THEN row.cells[n] ELSE EmptyCell
TitleCellOf(row)      == IF StudentRun THEN CellAt(row, 1) ELSE CellAt(row, 2)
SubmissionCellOf(row) == IF StudentRun THEN CellAt(row, 2) ELSE CellAt(row, 4)

\* The rows of a body that are to give a record: no header row, at least 8
\* data cells, a title.
RowsToKeep(body) ==
    LET Keep(row) == ~row.th /\ Len(row.cells) >= 8 /\ TitleCellOf(row).text # <<>>
    IN  SelectSeq(body, Keep)

\* C17: record extraction filter.  Of a body fetched with success the run
\* returns one record for each row that is no header row, has 8 data cells
\* or more and a title, in the order of the rows, and no record for any
\* other row; every record returned has a title.
C17_ExtractionFilter ==
    scrapeReturn # None =>
        /\ \A k \in 1..Len(Returned) : Returned[k].title # <<>>
        /\ \A i \in Idx :
              net[i].outcome = "ok" =>
                  /\ Len(ReturnedOf(i)) = Len(RowsToKeep(net[i].body))
                  /\ \A k \in 1..Len(ReturnedOf(i)) :
                         ReturnedOf(i)[k].title = TitleCellOf(RowsToKeep(net[i].body)[k]).text

\* The status is the word Submitted: the string scrape_assignments sets, or
\* the text of a cell that reads so.
SaysSubmitted(status) == status = "Submitted" \/ status = <<Name("Submitted")>>

\* C18: status from link presence.  A record returned for a row has status
\* Submitted exactly when the submission cell of the row holds an anchor.
C18_StatusFromLink ==
    scrapeReturn # None =>
        \A i \in Idx :
            net[i].outcome = "ok" =>
                \A k \in 1..Len(ReturnedOf(i)), r \in 1..Len(net[i].body) :
                    (/\ ~net[i].body[r].th
                     /\ TitleCellOf(net[i].body[r]).text = ReturnedOf(i)[k].title)
                    => (SaysSubmitted(ReturnedOf(i)[k].status)
                            <=> SubmissionCellOf(net[i].body[r]).a)

\* What a deadline text of day, month name, year and perhaps a clock time
\* with meridiem says, read off its tokens: the first number is the day, the
\* second the year, the name the month.
TextSays(text) ==
    LET IsNum(t)  == t.k = "num"
        IsName(t) == t.k = "name"
        IsTime(t) == t.k = "time"
        IsAmpm(t) == t.k = "ampm"
        nums  == SelectSeq(text, IsNum)
        month == SelectSeq(text, IsName)[1].s
        times == SelectSeq(text, IsTime)
        pm    == SelectSeq(text, IsAmpm)[1].s = "pm"
    IN  [y  |-> nums[2].v,
         mo |-> IF month \in DOMAIN MonthLong THEN MonthLong[month] ELSE MonthShort[month],
         d  |-> nums[1].v,
         h  |-> IF times = <<>> THEN 0
                ELSE IF times[1].v = 12 THEN (IF pm THEN 12 ELSE 0)
                ELSE IF pm THEN times[1].v + 12 ELSE times[1].v,
         mi |-> IF times = <<>> THEN 0 ELSE times[1].w]

\* C21: normaliser round trip.  For a text in one of the formats of
\* _parse_deadline, date and time set apart by a space or a hyphen, the
\* timestamp returned has the day, month and year of the text and its time
\* of day, midnight when the text has none.
C21_RoundTrip ==
    (normOut # None /\ normOut[1].by = "_parse_deadline"
        /\ Supported(normText, "_parse_deadline")) =>
            normOut[1].deadline_date = Some(TextSays(normText.value))

\* '25 September 2025-11:00 pm' came back as 25 September 2025, 23:00.
C21_Witness ==
    /\ normText = Text(Sept25)
    /\ normOut # None
    /\ normOut[1].by = "_parse_deadline"
    /\ normOut[1].deadline_date = Some(At(2025, 9, 25, 23, 0))

\* The record of the example row for a course: title 'Essay 1', a link in
\* the submission cell, 'Deadline Exceeded' in the action cell, deadline
\* '25 September 2025-11:00 pm'.
EssayRecord(course_name) ==
    [course     |-> course_name,
     title      |-> <<Name("Essay 1")>>,
     deadline   |-> Sept25,
     status     |-> "Submitted",
     is_overdue |-> TRUE]

\* C22: the end-to-end example.  A run of scrape_assignments returns, for a
\* course fetched with success whose table holds the example row, the
\* record of that row; when the days_left loop handles such a record while
\* the clock shows 1 October 2025 00:00, its days_left becomes -6, and a
\* pending record with that days_left is listed as overdue.
C22_EndToEnd ==
    /\ [](scrapePc = "done" =>
            \A i \in Idx :
                (net[i].outcome = "ok" /\ EssayRow \in Range(net[i].body))
                    => Count(ReturnedOf(i), EssayRecord(courses[i].course_name)) = 1)
    /\ [][(/\ scrapePc = "normalise"
           /\ normIdx' = normIdx + 1
           /\ \E i \in Idx : all_assignments[normIdx'] = EssayRecord(courses[i].course_name)
           /\ Nows[clock] = Oct1Midnight)
          => /\ all_assignments'[normIdx'].days_left = Some(-6)
             /\ LET pending == [all_assignments'[normIdx'] EXCEPT !.status = "Not Submitted"]
                IN  DisplaySections(<<pending>>) = << [name |-> "overdue", items |-> <<pending>>] >>]_vars

\* The run returned the record of the example row with days_left -6.
C22_Witness ==
    /\ scrapePc = "done"
    /\ \E k \in 1..Len(scrapeReturn[1]) :
          /\ Raw(scrapeReturn[1][k]) = EssayRecord("CS101")
          /\ scrapeReturn[1][k].days_left = Some(-6)

\* C23: no shared state between the workers.  The step in which a worker
\* ends its fetch changes the future and the status of its own course and
\* nothing else, the aggregate is changed by the collecting thread only,
\* and a run of scrape_assignments returns each record of each course
\* fetched with success once.
C23_NoSharedState ==
    /\ [][\A i \in Idx :
             (task[i] = "running" /\ task'[i] # "running") =>
                 /\ all_assignments' = all_assignments
                 /\ \A j \in Idx \ {i} : future'[j] = future[j] /\ task'[j] = task[j]
                 /\ <<courses', net', scrapePc', normIdx', scrapeReturn'>>
                        = <<courses, net, scrapePc, normIdx, scrapeReturn>>]_vars
    /\ [][all_assignments' # all_assignments =>
             (scrapePc \in {"normalise", "student"}
                  \/ \E i \in Idx : task[i] = "finished" /\ task'[i] = "collected")]_vars
    /\ [](scrapePc = "done" =>
             \A i \in Idx :
                 net[i].outcome = "ok" =>
                     \A k \in 1..Len(ExtractedOf(i)) : Count(Returned, ExtractedOf(i)[k]) = 1)

\* A worker has ended its fetch with records while another is at work and
\* nothing is collected yet.
C23_Witness ==
    /\ scrapePc = "pool"
    /\ all_assignments = <<>>
    /\ \E i, j \in Idx : task[i] = "finished" /\ future[i] # <<>> /\ task[j] = "running"

\* C24: the days-remaining phrase.  Every record listed in a warning is
\* rendered as four lines: its number and course name, its title between
\* double quotes, "Due:" with the phrase, and an empty line; the phrase is
\* "TODAY!" when days_left is 0, "Tomorrow" when it is 1, and the number
\* followed by "days left" when it is greater than 1.
C24_DaysPhrase ==
    \A k \in 1..Len(posts) :
        LET msg    == posts[k].message
            urgent == SelectSeq(trigData[k].assignments, IsUrgent)
        IN  msg.template = "warning" =>
                \A j \in 1..Len(msg.items) :
                    LET a      == urgent[j]
                        n      == a.days_left[1]
                        phrase == CASE n = 0 -> "TODAY!"
                                    [] n = 1 -> "Tomorrow"
                                    [] n > 1 -> ToString(n) \o " days left"
                                    [] OTHER -> msg.items[j].time_text
                    IN  /\ msg.items[j].time_text = phrase
                        /\ msg.items[j].lines
                               = << ToString(j) \o ". " \o a.course,
                                    [indent |-> "   ",
                                     quoted |-> [open |-> "\"", text |-> a.title, close |-> "\""]],
                                    "   Due: " \o phrase,
                                    "" >>

\* A warning that lists a record due today and a record due in three days,
\* after a warning that lists a record due tomorrow.
C24_Witness ==
    \E k \in 1..Len(posts) :
        /\ posts[k].message.template = "warning"
        /\ \E j \in 1..Len(posts[k].message.items) :
               posts[k].message.items[j].time_text = "TODAY!"
        /\ \E j \in 1..Len(posts[k].message.items) :
               posts[k].message.items[j].time_text = "3 days left"
        /\ \E h \in 1..(k - 1) :
               /\ posts[h].message.template = "warning"
               /\ posts[h].message.items[1].time_text = "Tomorrow"

\* ------------------------------------------------------------------------
\* app.py: the handlers that read and write the data file
\* ------------------------------------------------------------------------
\* Requests that are served at the same time.
MaxRequests == 2

\* Two students whose enrollments differ in the case of the letters only.
StoreEnrollments == {"BSE-7A", "bse-7a"}

\* The passwords, as the code points of their characters: none, "pw", and
\* the euro sign.
NoPassword == <<>>
Pw == <<112, 119>>
Euro == <<8364>>
Passwords == {NoPassword, Pw, Euro}

\* "bu-tracker-2024"
key == <<98, 117, 45, 116, 114, 97, 99, 107, 101, 114, 45, 50, 48, 50, 52>>

API_KEY == "bu-tracker-secret-2024"

Institutes == {None, Some("Islamabad Campus")}

\* The lists a desktop app syncs here: none, a pending record without
\* days_left, a pending record due tomorrow.
StoreLists ==
    {<<>>,
     <<CloudRecord(Assignment(1, None, "Not Submitted", FALSE))>>,
     <<CloudRecord(Assignment(1, Some(1), "Not Submitted", FALSE))>>}

\* a ^ b
RECURSIVE Xor(_, _)
Xor(a, b) ==
    IF a = 0 /\ b = 0 THEN 0
    ELSE (((a % 2) + (b % 2)) % 2) + 2 * Xor(a \div 2, b \div 2)

\* register_autosync, lines 174-176: None when bytes() raises ValueError
\* for a value above 255, else the base64 text of the bytes.
Encrypt(password) ==
    LET xored == [i \in 1..Len(password) |-> Xor(password[i], key[((i - 1) % 15) + 1])]
    IN  IF \E i \in 1..Len(xored) : xored[i] > 255 THEN None
        ELSE Some([b64 |-> xored])

\* get_autosync_students, lines 224-228.
Decrypt(encrypted) ==
    [i \in 1..Len(encrypted.b64) |-> Xor(encrypted.b64[i], key[((i - 1) % 15) + 1])]

\* The record of fields laid over student.
With(student, fields) == fields @@ student

\* f"bu-assignments-{enrollment.lower()}"
Topic(enrollment) == "bu-assignments-" \o Lower(enrollment)

\* sync_assignments, lines 70-76: the loaded data with the student's entry
\* replaced.
SyncStore(data, request) ==
    Put(data, request.enrollment,
        [enrollment           |-> request.enrollment,
         assignments          |-> request.assignments,
         last_synced          |-> "now",
         notification_enabled |-> TRUE])

\* subscribe, lines 114-120.
SubscribeStore(data, request) ==
    IF Position(data, request.enrollment) = 0
    THEN Put(data, request.enrollment,
             [enrollment           |-> request.enrollment,
              assignments          |-> <<>>,
              last_synced          |-> None,
              notification_enabled |-> TRUE])
    ELSE data

\* register_autosync, lines 179-185.
RegisterStore(data, request) ==
    LET student == IF Position(data, request.enrollment) = 0
                   THEN [enrollment |-> request.enrollment, assignments |-> <<>>]
                   ELSE Get(data, request.enrollment)
    IN  Put(data, request.enrollment,
            With(student,
                 [encrypted_password |-> Encrypt(request.password)[1],
                  institute          |-> IF request.institute = None THEN "Karachi Campus"
                                         ELSE request.institute[1],
                  auto_sync          |-> TRUE,
                  registered_at      |-> "now"]))

\* get_autosync_students, lines 216-237: the students list of the response.
Listing(data) ==
    LET AutoSynced(student) ==
            /\ "auto_sync" \in DOMAIN student
            /\ student.auto_sync
            /\ "encrypted_password" \in DOMAIN student
            /\ Decrypt(student.encrypted_password) # <<>>
        found == SelectSeq(data, AutoSynced)
    IN  [p \in 1..Len(found) |->
            [enrollment |-> found[p].enrollment,
             password   |-> Decrypt(found[p].encrypted_password),
             institute  |-> IF "institute" \in DOMAIN found[p] THEN found[p].institute
                            ELSE "Karachi Campus"]]

SyncRequests ==
    {[path |-> "/api/sync", enrollment |-> e, assignments |-> list] :
         e \in StoreEnrollments \cup {""}, list \in StoreLists}
SubscribeRequests ==
    {[path |-> "/api/subscribe", enrollment |-> e] : e \in StoreEnrollments \cup {""}}
RegisterRequests ==
    {[path |-> "/api/register", enrollment |-> e, password |-> pw, institute |-> inst] :
         e \in StoreEnrollments \cup {""}, pw \in Passwords, inst \in Institutes}
ListRequests ==
    {[path |-> "/api/students/autosync", key |-> k] : k \in {API_KEY, ""}}
Requests == SyncRequests \cup SubscribeRequests \cup RegisterRequests \cup ListRequests

\* The paths whose handlers write the data file.
Modifying == {"/api/sync", "/api/subscribe", "/api/register"}

\* Lines 59-60, 108-109, 166-167, 212-213: the response a handler returns
\* before it loads the data, None when it goes on.
Rejection(request) ==
    CASE request.path \in {"/api/sync", "/api/subscribe"} /\ request.enrollment = ""
             -> Some([code |-> 400, body |-> [error |-> "Enrollment required"]])
      [] request.path = "/api/register" /\ (request.enrollment = "" \/ request.password = <<>>)
             -> Some([code |-> 400, body |-> [error |-> "Enrollment and password required"]])
      [] request.path = "/api/students/autosync" /\ request.key # API_KEY
             -> Some([code |-> 401, body |-> [error |-> "Unauthorized. API key required."]])
      [] OTHER -> None

\* What save_data writes while the handler runs on data, None when the
\* handler does not call save_data.
Saved(data, request) ==
    CASE request.path = "/api/sync" -> Some(SyncStore(data, request))
      [] request.path = "/api/subscribe" ->
             IF Position(data, request.enrollment) = 0
             THEN Some(SubscribeStore(data, request)) ELSE None
      [] request.path = "/api/register" ->
             IF Encrypt(request.password) = None THEN None
             ELSE Some(RegisterStore(data, request))
      [] OTHER -> None

\* The response of the handler that loaded data.
Response(data, request) ==
    CASE request.path = "/api/sync" ->
             [code |-> SyncResponse(request.enrollment, request.assignments).code,
              body |-> SyncResponse(request.enrollment, request.assignments).body]
      [] request.path = "/api/subscribe" ->
             [code |-> 200,
              body |-> [success |-> TRUE, topic |-> Topic(request.enrollment),
                        message |-> "Subscribe to '" \o Topic(request.enrollment)
                                        \o "' in the ntfy app to receive notifications"]]
      [] request.path = "/api/register" ->
             IF Encrypt(request.password) = None
             THEN [code |-> 500, body |-> [error |-> "bytes must be in range(0, 256)"]]
             ELSE [code |-> 200,
                   body |-> [success |-> TRUE,
                             message |-> "Registered for auto-sync. Cloud will scrape your LMS daily at 6 AM.",
                             topic   |-> Topic(request.enrollment)]]
      [] OTHER ->
             [code |-> 200, body |-> [students |-> Listing(data), count |-> Len(Listing(data))]]

IdleRequest == [pc |-> "idle", request |-> None, data |-> <<>>, response |-> None]

Slots == DOMAIN req

\* A handler starts: it returns at once on a bad payload or key, else it
\* calls load_data.
Load(h, request) ==
    /\ req[h].pc = "idle"
    /\ req' = [req EXCEPT ![h] =
                  IF Rejection(request) # None
                  THEN [pc |-> "done", request |-> Some(request), data |-> <<>>,
                        response |-> Rejection(request)]
                  ELSE [pc |-> "loaded", request |-> Some(request), data |-> students,
                        response |-> None]]
    /\ UNCHANGED students
    /\ UNCHANGED <<response, trigPc, trigData, trigTodo, results, posts>>
    /\ UNCHANGED <<scrapeVars, guiVars, normVars, refreshVars>>

\* The handler goes on from load_data to its return: it changes its data,
\* calls save_data and builds the response.
Finish(h) ==
    /\ req[h].pc = "loaded"
    /\ LET request == req[h].request[1]
           written == Saved(req[h].data, request)
       IN  /\ students' = IF written = None THEN students ELSE written[1]
           /\ req' = [req EXCEPT ![h] =
                         [pc |-> "done", request |-> Some(request),
                          data |-> IF written = None THEN req[h].data ELSE written[1],
                          response |-> Some(Response(req[h].data, request))]]
    /\ UNCHANGED <<response, trigPc, trigData, trigTodo, results, posts>>
    /\ UNCHANGED <<scrapeVars, guiVars, normVars, refreshVars>>

\* The response is with the client and the handler's locals are gone.
Return(h) ==
    /\ req[h].pc = "done"
    /\ req' = [req EXCEPT ![h] = IdleRequest]
    /\ UNCHANGED students
    /\ UNCHANGED <<response, trigPc, trigData, trigTodo, results, posts>>
    /\ UNCHANGED <<scrapeVars, guiVars, normVars, refreshVars>>

\* gui.py, _enable_notifications, lines 933-969, against a server that
\* serves nothing else meanwhile: the register request and, when it is
\* answered with 200 and the app holds assignments, the sync request.
EnableNotifications(h, enrollment, password, institute, list) ==
    LET register == [path |-> "/api/register", enrollment |-> enrollment,
                     password |-> password, institute |-> Some(institute)]
        sync     == [path |-> "/api/sync", enrollment |-> enrollment, assignments |-> list]
        written  == Saved(students, register)
        ok       == Response(students, register).code = 200
    IN  /\ req[h].pc = "idle"
        /\ enrollment # "" /\ password # <<>>
        /\ IF ok /\ list # <<>>
           THEN /\ students' = SyncStore(written[1], sync)
                /\ req' = [req EXCEPT ![h] =
                              [pc |-> "done", request |-> Some(sync),
                               data |-> SyncStore(written[1], sync),
                               response |-> Some(Response(written[1], sync))]]
           ELSE /\ students' = IF written = None THEN students ELSE written[1]
                /\ req' = [req EXCEPT ![h] =
                              [pc |-> "done", request |-> Some(register),
                               data |-> IF written = None THEN students ELSE written[1],
                               response |-> Some(Response(students, register))]]
        /\ UNCHANGED <<response, trigPc, trigData, trigTodo, results, posts>>
        /\ UNCHANGED <<scrapeVars, guiVars, normVars, refreshVars>>

\* The server with an empty data file and slots request slots.
InitStore(slots) ==
    /\ students = << >>
    /\ response = None
    /\ trigPc = "idle"
    /\ trigData = << >>
    /\ trigTodo = <<>>
    /\ results = NoResults
    /\ posts = <<>>
    /\ req = [h \in 1..slots |-> IdleRequest]
    /\ ScrapeIdle
    /\ GuiIdle
    /\ NormIdle
    /\ RefreshIdle

\* Requests served one at a time.
InitServe == InitStore(1)

NextServe ==
    \/ \E request \in Requests : Load(1, request)
    \/ Finish(1)
    \/ Return(1)
    \/ \E e \in StoreEnrollments, list \in StoreLists :
           EnableNotifications(1, e, Pw, "Islamabad Campus", list)

SpecServe == InitServe /\ [][NextServe]_vars

\* MaxRequests requests served at the same time, each by a handler of its
\* own: the steps of the handlers interleave at load_data and save_data.
InitConcurrent == InitStore(MaxRequests)

NextConcurrent ==
    \/ \E h \in 1..MaxRequests, request \in Requests : Load(h, request)
    \/ \E h \in 1..MaxRequests : Finish(h)

SpecConcurrent == InitConcurrent /\ [][NextConcurrent]_vars

\* The data file after request was served alone on store.
Served(store, request) ==
    IF Rejection(request) # None \/ Saved(store, request) = None THEN store
    ELSE Saved(store, request)[1]

\* The data file after the requests of order were served one after the
\* other on store.
RECURSIVE ServedInOrder(_, _)
ServedInOrder(store, order) ==
    IF order = <<>> THEN store
    ELSE ServedInOrder(Served(store, Head(order)), Tail(order))

\* ------------------------------------------------------------------------
\* gui.py: the refresh cycle of the dashboard
\* ------------------------------------------------------------------------
\* Refreshes started in one run of the window.
MaxRefreshes == 3

\* What scrape_assignments returns here: no record, or one pending record.
ScrapeResults == {<<>>, <<Assignment(1, Some(1), "Not Submitted", FALSE)>>}

\* What a step of the automation does: it returns or it raises.
StepOutcomes == {"ok", "raise"}

\* The window after __init__: the button as created, the timer of
\* root.after(500, self._start_refresh) pending, no list.
InitRefresh ==
    /\ refresh_btn = "normal"
    /\ launch = "pending"
    /\ threads = <<>>
    /\ tkQueue = <<>>
    /\ assignments = <<>>
    /\ sections = None
    /\ summary = None
    /\ ScrapeIdle
    /\ CloudIdle
    /\ NormIdle
    /\ StoreIdle

\* The threads that have not left _fetch_assignments.
Fetching == {t \in 1..Len(threads) : threads[t].pc # "done"}

\* _start_refresh, lines 370-376: the button is disabled and a thread is
\* started on _fetch_assignments with automation = None.
StartRefresh ==
    /\ refresh_btn' = "disabled"
    /\ threads' = Append(threads, [pc |-> "start_browser", driver |-> "none",
                                   error |-> FALSE, enabled |-> FALSE])
    /\ UNCHANGED <<tkQueue, assignments, sections, summary>>
    /\ UNCHANGED <<scrapeVars, cloudVars, normVars, storeVars>>

\* Line 210: the timer of __init__ fires and calls _start_refresh.
LaunchRefresh ==
    /\ launch = "pending"
    /\ launch' = "fired"
    /\ StartRefresh

\* Line 295: a click on the button, which Tk delivers while the button is
\* not disabled.  The clicks are bounded so that the timer's refresh is
\* one of the MaxRefreshes.
ClickRefresh ==
    /\ refresh_btn = "normal"
    /\ Len(threads) + (IF launch = "pending" THEN 1 ELSE 0) < MaxRefreshes
    /\ StartRefresh
    /\ UNCHANGED launch

\* Lines 400-402: the except clause hands _show_error to the main loop.
Raised(t) ==
    /\ threads' = [threads EXCEPT ![t].pc = "finally", ![t].error = TRUE]
    /\ tkQueue' = Append(tkQueue, [callback |-> "_show_error", by |-> t])

\* Something other than the thread's position and the callbacks changes.
FetchFrame ==
    /\ UNCHANGED <<refresh_btn, launch, sections, summary>>
    /\ UNCHANGED <<scrapeVars, cloudVars, normVars, storeVars>>

\* Lines 383-388 and automation.py 42-70: the automation is built and
\* start_browser runs; it raises with no driver, or after the driver is set.
StartBrowser(t, outcome, driver) ==
    /\ t \in 1..Len(threads)
    /\ threads[t].pc = "start_browser"
    /\ IF outcome = "ok"
       THEN /\ threads' = [threads EXCEPT ![t].pc = "login", ![t].driver = "open"]
            /\ UNCHANGED tkQueue
       ELSE /\ threads' = [threads EXCEPT ![t].pc = "finally", ![t].error = TRUE,
                                          ![t].driver = driver]
            /\ tkQueue' = Append(tkQueue, [callback |-> "_show_error", by |-> t])
    /\ UNCHANGED assignments
    /\ FetchFrame

\* Lines 389-393: login_to_cms.
Login(t, outcome) ==
    /\ t \in 1..Len(threads)
    /\ threads[t].pc = "login"
    /\ IF outcome = "ok"
       THEN /\ threads' = [threads EXCEPT ![t].pc = "navigate"]
            /\ UNCHANGED tkQueue
       ELSE Raised(t)
    /\ UNCHANGED assignments
    /\ FetchFrame

\* Line 394: navigate_to_lms.
Navigate(t, outcome) ==
    /\ t \in 1..Len(threads)
    /\ threads[t].pc = "navigate"
    /\ IF outcome = "ok"
       THEN /\ threads' = [threads EXCEPT ![t].pc = "scrape"]
            /\ UNCHANGED tkQueue
       ELSE Raised(t)
    /\ UNCHANGED assignments
    /\ FetchFrame

\* A scrape that stores its list before it raises.
ScrapeStoringFirst(t, outcome, list) ==
    /\ t \in 1..Len(threads)
    /\ threads[t].pc = "scrape"
    /\ assignments' = list
    /\ IF outcome = "ok"
       THEN /\ threads' = [threads EXCEPT ![t].pc = "finally"]
            /\ tkQueue' = Append(tkQueue, [callback |-> "_display_assignments", by |-> t])
       ELSE Raised(t)
    /\ FetchFrame

\* Lines 395-398: scrape_assignments; its list is stored and
\* _display_assignments is handed to the main loop.
Scrape(t, outcome, list) ==
    /\ t \in 1..Len(threads)
    /\ threads[t].pc = "scrape"
    /\ IF outcome = "ok"
       THEN /\ threads' = [threads EXCEPT ![t].pc = "finally"]
            /\ assignments' = list
            /\ tkQueue' = Append(tkQueue, [callback |-> "_display_assignments", by |-> t])
       ELSE /\ Raised(t)
            /\ UNCHANGED assignments
    /\ FetchFrame

\* automation.py, close, lines 383-390: the driver, if any, is quit.
Close(driver) == IF driver = "open" THEN "closed" ELSE driver

\* Lines 403-406: the finally clause closes the automation and hands the
\* enabling of the button to the main loop; the thread ends.
Finally(t) ==
    /\ t \in 1..Len(threads)
    /\ threads[t].pc = "finally"
    /\ threads' = [threads EXCEPT ![t].pc = "done", ![t].driver = Close(threads[t].driver)]
    /\ tkQueue' = Append(tkQueue, [callback |-> "enable", by |-> t])
    /\ UNCHANGED assignments
    /\ FetchFrame

\* The main loop runs the oldest callback handed to root.after(0, ...).
RunCallback ==
    /\ tkQueue # <<>>
    /\ tkQueue' = Tail(tkQueue)
    /\ LET event == Head(tkQueue)
       IN  /\ sections' = IF event.callback = "_display_assignments"
                          THEN Some(DisplaySections(assignments)) ELSE sections
           /\ refresh_btn' = IF event.callback = "enable" THEN "normal" ELSE refresh_btn
           /\ threads' = IF event.callback = "enable"
                         THEN [threads EXCEPT ![event.by].enabled = TRUE] ELSE threads
    /\ UNCHANGED <<launch, assignments, summary>>
    /\ UNCHANGED <<scrapeVars, cloudVars, normVars, storeVars>>

FetchStep(t) ==
    \/ \E outcome \in StepOutcomes, driver \in {"none", "open"} : StartBrowser(t, outcome, driver)
    \/ \E outcome \in StepOutcomes : Login(t, outcome)
    \/ \E outcome \in StepOutcomes : Navigate(t, outcome)
    \/ \E outcome \in StepOutcomes, list \in ScrapeResults : Scrape(t, outcome, list)
    \/ Finally(t)

NextRefresh ==
    \/ LaunchRefresh
    \/ ClickRefresh
    \/ \E t \in 1..MaxRefreshes, outcome \in StepOutcomes, driver \in {"none", "open"} :
           StartBrowser(t, outcome, driver)
    \/ \E t \in 1..MaxRefreshes, outcome \in StepOutcomes : Login(t, outcome)
    \/ \E t \in 1..MaxRefreshes, outcome \in StepOutcomes : Navigate(t, outcome)
    \/ \E t \in 1..MaxRefreshes, outcome \in StepOutcomes, list \in ScrapeResults :
           Scrape(t, outcome, list)
    \/ \E t \in 1..MaxRefreshes : Finally(t)
    \/ RunCallback

SpecRefresh == InitRefresh /\ [][NextRefresh]_vars

\* Every thread started is scheduled until it ends, each call of the
\* automation returns or raises within its timeout, the timer fires, and
\* the main loop runs the callbacks handed to it.
SpecRefreshFair ==
    /\ SpecRefresh
    /\ WF_vars(LaunchRefresh)
    /\ WF_vars(RunCallback)
    /\ \A t \in 1..MaxRefreshes : WF_vars(FetchStep(t))

\* The server with the scheduler's /api/trigger among the requests, all
\* served one at a time, every message accepted by ntfy.sh.
NextRoute ==
    \/ \E request \in Requests : trigPc = "idle" /\ Load(1, request)
    \/ Finish(1)
    \/ Return(1)
    \/ req[1].pc = "idle" /\ TriggerStart
    \/ TriggerStudent("200")
    \/ TriggerReturn
    \/ TriggerClose

SpecRoute == InitServe /\ [][NextRoute]_vars

\* ------------------------------------------------------------------------
\* Claims about the data file
\* ------------------------------------------------------------------------
\* The entries of the auto-sync listing of store for enrollment.
EntryOf(store, enrollment) ==
    LET Named(x) == x.enrollment = enrollment
    IN  SelectSeq(Listing(store), Named)

\* C25: auto-sync registration is durable.  A student who is in the
\* auto-sync listing stays in it, with the same password and institute,
\* over every step of the server but the end of a later register request
\* for that student.
C25_RegistrationDurable ==
    [][\A e \in StoreEnrollments :
           EntryOf(students, e) # <<>> =>
               \/ EntryOf(students', e) = EntryOf(students, e)
               \/ \E h \in Slots :
                      /\ req[h].pc # "done"
                      /\ req'[h].pc = "done"
                      /\ req'[h].request[1].path = "/api/register"
                      /\ req'[h].request[1].enrollment = e]_vars

\* C26: sync is all-or-nothing.  When a sync request ends, either its
\* response has status 200 and the assignments stored for the student are
\* those of the request, or its response is an error and the data file is
\* what it was before.
C26_SyncAllOrNothing ==
    [][\A h \in Slots :
           (/\ req[h].pc # "done"
            /\ req'[h].pc = "done"
            /\ req'[h].request[1].path = "/api/sync") =>
               IF req'[h].response[1].code = 200
               THEN /\ Position(students', req'[h].request[1].enrollment) # 0
                    /\ Get(students', req'[h].request[1].enrollment).assignments
                           = req'[h].request[1].assignments
               ELSE students' = students]_vars

\* C27: no lost update.  When the requests served at the same time have all
\* ended, the data file is what serving them one after the other, in one of
\* the two orders, leaves.
C27_NoLostUpdate ==
    (\A h \in Slots : req[h].pc = "done") /\ Len(req) = MaxRequests =>
        \/ students = ServedInOrder(<<>>, <<req[1].request[1], req[2].request[1]>>)
        \/ students = ServedInOrder(<<>>, <<req[2].request[1], req[1].request[1]>>)

\* C28: at most one refresh at a time.  In every state at most one thread
\* is in _fetch_assignments.
C28_OneRefresh == Cardinality(Fetching) <= 1

\* C29: a refresh completes its cycle.  Every thread started ends with its
\* browser not open and the main loop enabling the button on its behalf,
\* and the list held changes only when a thread's scrape_assignments
\* returns.
C29_RefreshCompletes ==
    /\ \A t \in 1..MaxRefreshes :
           (t \in 1..Len(threads) /\ threads[t].pc = "start_browser") ~>
               (/\ t \in 1..Len(threads)
                /\ threads[t].pc = "done"
                /\ threads[t].driver # "open"
                /\ threads[t].enabled
                /\ refresh_btn = "normal")
    /\ [][\A t \in 1..Len(threads) :
              (threads[t].pc # "finally" /\ threads'[t].pc = "finally" /\ threads'[t].error)
                  => assignments' = assignments]_vars
    /\ [][assignments' # assignments =>
              \E t \in 1..Len(threads) :
                  threads[t].pc = "scrape" /\ threads'[t].pc = "finally" /\ ~threads'[t].error]_vars

\* A refresh that failed at login has ended: its browser is closed, the
\* button is enabled again, and the list of an earlier refresh is held.
C29_Witness ==
    /\ Len(threads) = 2
    /\ threads[1].pc = "done" /\ ~threads[1].error
    /\ threads[2].pc = "done" /\ threads[2].error /\ threads[2].driver = "closed"
    /\ threads[2].enabled
    /\ refresh_btn = "normal"
    /\ assignments # <<>>
    /\ tkQueue = <<>>

\* C30: routing keys separate students.  Two entries of the data file have
\* different topics; a message of /api/trigger goes to the topic of the
\* student it is built for and to that of no other student handled; and
\* sync, subscribe and register answer with the topic of the enrollment of
\* the request.
C30_RoutingKeys ==
    /\ \A p, q \in 1..Len(students) :
           p # q => Topic(students[p].enrollment) # Topic(students[q].enrollment)
    /\ \A k \in 1..Len(posts) :
           /\ posts[k].topic = Topic(trigData[k].enrollment)
           /\ \A q \in 1..Len(trigData) :
                  q # k => posts[k].topic # Topic(trigData[q].enrollment)
    /\ \A h \in Slots :
           (/\ req[h].pc = "done"
            /\ req[h].request[1].path \in Modifying
            /\ req[h].response[1].code = 200) =>
               req[h].response[1].body.topic = Topic(req[h].request[1].enrollment)

=============================================================================
